---------------------------- MODULE Spec2Model ----------------------------
(***************************************************************************)
(* A model of the CFF CharString (Type 2) interpreter of ttf-parser        *)
(* (src/src/cff.rs): parse_char_string / _parse_char_string, the operand   *)
(* stack, the subroutine INDEXes and the bounding-box builder.             *)
(*                                                                         *)
(* Numbers.  The interpreter computes with f32.  Every value of the model  *)
(* is an integer counting units of 1/UNIT, so UNIT stands for 1.0.  The    *)
(* fonts of the model only hold operands that are multiples of 1/2 and     *)
(* stay far below 2^23 in magnitude, for which f32 arithmetic is exact.    *)
(***************************************************************************)
EXTENDS Integers, Sequences, FiniteSets, TLC

(***************************************************************************)
(* Program constants.                                                      *)
(***************************************************************************)
STACK_LIMIT == 10
MAX_ARGUMENTS_STACK_LEN == 48
TWO_BYTE_OPERATOR_MARK == 12
U16_MAX == 65535
I32_MAX == 2147483647
I32_MIN == -I32_MAX - 1
MAX_OPERANDS_LEN == 48
FLOAT_STACK_LEN == 64
END_OF_FLOAT_FLAG == 15
I16_MAX == 32767
I16_MIN == -32768
\* 1.0 in model units: the 16.16 operand (op 255) is n / 65536.0; the model
\* keeps 8 fractional bits of it.
UNIT == 256
\* f32::MAX and f32::MIN, the initial extremes of the bounding box.  The model
\* uses a value above every coordinate a model font can produce.
F32_MAX == 1000000000
F32_MIN == -F32_MAX

(***************************************************************************)
(* Bounds of the model.                                                    *)
(***************************************************************************)
\* Longest generated glyph CharString, in bytes.
MaxLen == 3
\* The longest generated byte string read as an INDEX.
MaxIndexLen == 5

(***************************************************************************)
(* Small helpers.                                                          *)
(***************************************************************************)
Min(a, b) == IF a <= b THEN a ELSE b
Max(a, b) == IF a >= b THEN a ELSE b
f32_abs(n) == IF n < 0 THEN -n ELSE n
is_odd(n) == n % 2 = 1
\* Option<T>: None is <<>>, Some(v) is <<v>>.
None == <<>>
Some(v) == <<v>>
IsSome(o) == Len(o) = 1
\* Division rounding toward zero (Rust's float -> int `as`, and integer `/`).
TruncDiv(a, b) == IF a >= 0 THEN a \div b ELSE -((-a) \div b)
\* `f as i32` for a model value f (truncation toward zero; every model value
\* is inside the i32 range).
AsI32(f) == TruncDiv(f, UNIT)
\* `i as u16` for an i32 i: the low 16 bits.
AsU16(i) == i % (U16_MAX + 1)
\* Mutant of AsI16: the integer part is wrapped to 16 bits, not saturated.
AsI16_wrapping(f) ==
    ((TruncDiv(f, UNIT) + I16_MAX + 1) % (U16_MAX + 1)) - I16_MAX - 1

\* `f as i16` for a model value f: truncation toward zero, saturating.
AsI16(f) ==
    LET t == TruncDiv(f, UNIT)
    IN  IF t > I16_MAX THEN I16_MAX ELSE IF t < I16_MIN THEN I16_MIN ELSE t
Reverse(s) == [i \in 1..Len(s) |-> s[Len(s) + 1 - i]]

(***************************************************************************)
(* Stream (crate::parser), VarOffsets and DataIndex.                       *)
(***************************************************************************)
\* data.try_slice(start..end): the bytes data[start..end], or None.
try_slice(data, start, end) ==
    IF start <= end /\ end <= Len(data)
    THEN Some(SubSeq(data, start + 1, end))
    ELSE None

\* Big-endian unsigned value of a byte sequence (u8, u16, U24, u32 parse).
RECURSIVE parse_be(_)
parse_be(bytes) ==
    IF bytes = <<>> THEN 0
    ELSE parse_be(SubSeq(bytes, 1, Len(bytes) - 1)) * 256 + bytes[Len(bytes)]

VarOffsets_len(o) == (Len(o.data) % (U16_MAX + 1)) \div o.offset_size

\* Mutant of VarOffsets_get: the stored offset is not shifted back by one.
VarOffsets_get_unshifted(o, index) ==
    IF index >= VarOffsets_len(o) THEN None
    ELSE LET start == index * o.offset_size
             end   == start + o.offset_size
             data  == try_slice(o.data, start, end)
         IN  IF ~IsSome(data) THEN None
             ELSE LET n == parse_be(data[1])
                  IN  IF n = 0 THEN None ELSE Some(n)

VarOffsets_get(o, index) ==
    IF index >= VarOffsets_len(o) THEN None
    ELSE LET start == index * o.offset_size
             end   == start + o.offset_size
             data  == try_slice(o.data, start, end)
         IN  IF ~IsSome(data) THEN None
             ELSE LET n == parse_be(data[1])
                  IN  IF n = 0 THEN None ELSE Some(n - 1)

DataIndex_default ==
    [data |-> <<>>, offsets |-> [data |-> <<>>, offset_size |-> 1]]

DataIndex_len(ix) ==
    IF VarOffsets_len(ix.offsets) # 0
    THEN VarOffsets_len(ix.offsets) - 1
    ELSE 0


\* Mutant of DataIndex_get: an ordinal past the end selects the last item.
DataIndex_get_clamped(ix, index) ==
    LET n == VarOffsets_len(ix.offsets)
        i == IF index + 1 < n THEN index ELSE n - 2
    IN  IF n < 2 THEN None
        ELSE LET start == VarOffsets_get(ix.offsets, i)
                 end   == VarOffsets_get(ix.offsets, i + 1)
             IN  IF ~IsSome(start) \/ ~IsSome(end) THEN None
                 ELSE try_slice(ix.data, start[1], end[1])

DataIndex_get(ix, index) ==
    IF index = U16_MAX THEN None
    ELSE IF index + 1 < VarOffsets_len(ix.offsets)
    THEN LET start == VarOffsets_get(ix.offsets, index)
             end   == VarOffsets_get(ix.offsets, index + 1)
         IN  IF ~IsSome(start) \/ ~IsSome(end) THEN None
             ELSE try_slice(ix.data, start[1], end[1])
    ELSE None


\* VarOffsets::last
VarOffsets_last(o) ==
    IF VarOffsets_len(o) # 0 THEN VarOffsets_get(o, VarOffsets_len(o) - 1)
    ELSE None

(***************************************************************************)
(* Reading an INDEX from a Stream, which is the slice `data` and the       *)
(* offset `off` in it.  A function of a Stream returns                     *)
(*   [ok, val: the value, off: the Stream's offset afterwards, err].       *)
(***************************************************************************)
OkAt(v, off) == [ok |-> TRUE, val |-> v, off |-> off, err |-> ""]
Err(e) == [ok |-> FALSE, val |-> None, off |-> 0, err |-> e]

\* s.read::<T>() of an n-byte unsigned T at off: the value, or None when
\* fewer than n bytes are left.
Stream_read(data, off, n) ==
    IF off + n <= Len(data)
    THEN Some(parse_be(SubSeq(data, off + 1, off + n)))
    ELSE None

\* s.read_bytes(n) at off.
Stream_read_bytes(data, off, n) ==
    IF off + n <= Len(data) THEN Some(SubSeq(data, off + 1, off + n)) ELSE None

\* Mutant of OffsetSize_try_parse: 5 passes for a size.
OffsetSize_try_parse_lenient(b) == IF b \in 1..5 THEN Some(b) ELSE None

\* OffsetSize::try_parse
OffsetSize_try_parse(b) == IF b \in 1..4 THEN Some(b) ELSE None

parse_index_impl(count, data, off) ==
    LET b == Stream_read(data, off, 1)
    IN  IF ~IsSome(b) THEN Err("ReadOutOfBounds")
        ELSE LET offset_size == OffsetSize_try_parse(b[1])
             IN  IF ~IsSome(offset_size) THEN Err("InvalidOffsetSize")
                 ELSE LET offsets_len == (count + 1) * offset_size[1]
                          bytes == Stream_read_bytes(data, off + 1, offsets_len)
                      IN  IF ~IsSome(bytes) THEN Err("ReadOutOfBounds")
                          ELSE LET offsets == [data |-> bytes[1],
                                               offset_size |-> offset_size[1]]
                                   after == off + 1 + offsets_len
                                   last_offset == VarOffsets_last(offsets)
                               IN  IF ~IsSome(last_offset)
                                   THEN OkAt(DataIndex_default, after)
                                   ELSE LET payload ==
                                                Stream_read_bytes(data, after,
                                                                  last_offset[1])
                                        IN  IF ~IsSome(payload)
                                            THEN Err("ReadOutOfBounds")
                                            ELSE OkAt([data |-> payload[1],
                                                       offsets |-> offsets],
                                                      after + last_offset[1])

\* Mutant of parse_index: only the count 0 is an empty INDEX.
parse_index_zero_only(data, off) ==
    LET count == Stream_read(data, off, 2)
    IN  IF ~IsSome(count) THEN Err("ReadOutOfBounds")
        ELSE IF count[1] # 0
        THEN parse_index_impl(count[1], data, off + 2)
        ELSE OkAt(DataIndex_default, off + 2)

parse_index(data, off) ==
    LET count == Stream_read(data, off, 2)
    IN  IF ~IsSome(count) THEN Err("ReadOutOfBounds")
        ELSE IF count[1] # 0 /\ count[1] # U16_MAX
        THEN parse_index_impl(count[1], data, off + 2)
        ELSE OkAt(DataIndex_default, off + 2)

\* skip_index: val is None; skip_len moves the offset without a check.
skip_index(data, off) ==
    LET count == Stream_read(data, off, 2)
    IN  IF ~IsSome(count) THEN Err("ReadOutOfBounds")
        ELSE IF count[1] # 0 /\ count[1] # U16_MAX
        THEN LET b == Stream_read(data, off + 2, 1)
             IN  IF ~IsSome(b) THEN Err("ReadOutOfBounds")
                 ELSE LET offset_size == OffsetSize_try_parse(b[1])
                      IN  IF ~IsSome(offset_size) THEN Err("InvalidOffsetSize")
                          ELSE LET offsets_len == (count[1] + 1) * offset_size[1]
                                   bytes == Stream_read_bytes(data, off + 3,
                                                              offsets_len)
                               IN  IF ~IsSome(bytes) THEN Err("ReadOutOfBounds")
                                   ELSE LET offsets ==
                                                [data |-> bytes[1],
                                                 offset_size |-> offset_size[1]]
                                            after == off + 3 + offsets_len
                                            last_offset == VarOffsets_last(offsets)
                                        IN  IF IsSome(last_offset)
                                            THEN OkAt(None, after + last_offset[1])
                                            ELSE OkAt(None, after)
        ELSE OkAt(None, off + 2)

(***************************************************************************)
(* DICT numbers.  A Number is [kind |-> "Integer", n] or                   *)
(* [kind |-> "Float", text], text being the characters that parse_float    *)
(* collected and that str::parse::<f32> accepted.                          *)
(***************************************************************************)
Integer(n) == [kind |-> "Integer", n |-> n]
Float(text) == [kind |-> "Float", text |-> text]

Digits == <<"0", "1", "2", "3", "4", "5", "6", "7", "8", "9">>
IsDigits(t) == \A i \in 1..Len(t) : \E d \in 1..10 : Digits[d] = t[i]
DigitOf(c) == (CHOOSE d \in 1..10 : Digits[d] = c) - 1
\* The first position of c in t, or 0.
PosOf(t, c) ==
    IF \E i \in 1..Len(t) : t[i] = c
    THEN CHOOSE i \in 1..Len(t) : t[i] = c /\ \A j \in 1..(i - 1) : t[j] # c
    ELSE 0

\* The parts of a decimal text: sign, integral and fractional digits, and
\* the exponent text (None when there is no E).
DecimalParts(text) ==
    LET neg  == text # <<>> /\ text[1] = "-"
        u    == IF neg THEN Tail(text) ELSE text
        e    == PosOf(u, "E")
        mant == IF e = 0 THEN u ELSE SubSeq(u, 1, e - 1)
        d    == PosOf(mant, ".")
    IN  [neg  |-> neg,
         int  |-> IF d = 0 THEN mant ELSE SubSeq(mant, 1, d - 1),
         frac |-> IF d = 0 THEN <<>> ELSE SubSeq(mant, d + 1, Len(mant)),
         exp  |-> IF e = 0 THEN None ELSE Some(SubSeq(u, e + 1, Len(u)))]

\* str::parse::<f32> accepts: [-] digits [. digits] [E [-] digits] with a
\* digit in the mantissa and, after an E, a digit in the exponent.
f32_from_str_ok(text) ==
    LET p == DecimalParts(text)
    IN  /\ IsDigits(p.int) /\ IsDigits(p.frac)
        /\ Len(p.int) + Len(p.frac) > 0
        /\ IsSome(p.exp) =>
              LET x == p.exp[1]
                  m == IF x # <<>> /\ x[1] = "-" THEN Tail(x) ELSE x
              IN  m # <<>> /\ IsDigits(m)

\* The value of the digits t (from position i on, acc so far), I32_MAX when
\* it is larger.
RECURSIVE DigitsValue(_, _, _)
DigitsValue(t, i, acc) ==
    IF i > Len(t) THEN acc
    ELSE LET d == DigitOf(t[i])
         IN  IF acc > 214748364 \/ (acc = 214748364 /\ d > 7) THEN I32_MAX
             ELSE DigitsValue(t, i + 1, acc * 10 + d)

\* Number::Float(n) => n as i32: the value rounded toward zero, saturating.
\* Exact for the texts of at most 7 significant digits, which f32 holds
\* exactly.
Float_as_i32(text) ==
    LET p   == DecimalParts(text)
        x   == IF IsSome(p.exp) THEN p.exp[1] ELSE <<"0">>
        xn  == x[1] = "-"
        xv  == DigitsValue(IF xn THEN Tail(x) ELSE x, 1, 0)
        all == p.int \o p.frac
        \* the digits left of the decimal point once the exponent is applied
        k   == IF xn THEN Len(p.int) - Min(xv, 100) ELSE Len(p.int) + Min(xv, 100)
        whole == IF k <= 0 THEN <<>>
                 ELSE IF k <= Len(all) THEN SubSeq(all, 1, k)
                 ELSE all \o [i \in 1..Min(k - Len(all), 12) |-> "0"]
        v   == DigitsValue(whole, 1, 0)
    IN  IF p.neg THEN (IF v = I32_MAX THEN I32_MIN ELSE -v) ELSE v

\* Number::as_i32
Number_as_i32(num) ==
    IF num.kind = "Integer" THEN num.n ELSE Float_as_i32(num.text)

\* parse_float_nibble: the text with the nibble's characters added, or
\* None for InvalidFloat.
parse_float_nibble(nibble, text) ==
    IF Len(text) = FLOAT_STACK_LEN THEN None
    ELSE IF nibble \in 0..9 THEN Some(Append(text, Digits[nibble + 1]))
    ELSE IF nibble = 10 THEN Some(Append(text, "."))
    ELSE IF nibble = 11 THEN Some(Append(text, "E"))
    ELSE IF nibble = 12
    THEN IF Len(text) + 1 = FLOAT_STACK_LEN THEN None
         ELSE Some(text \o <<"E", "-">>)
    ELSE IF nibble = 13 THEN None
    ELSE IF nibble = 14 THEN Some(Append(text, "-"))
    ELSE None

\* The end of parse_float: the characters are parsed as an f32.
parse_float_end(text, off) ==
    IF f32_from_str_ok(text) THEN OkAt(Float(text), off)
    ELSE Err("InvalidFloat")

\* parse_float, with the Stream at off and the characters text collected.
RECURSIVE parse_float(_, _, _)
parse_float(data, off, text) ==
    IF off >= Len(data) THEN Err("ReadOutOfBounds")
    ELSE LET b1 == data[off + 1]
             nibble1 == b1 \div 16
             nibble2 == b1 % 16
         IN  IF nibble1 = END_OF_FLOAT_FLAG
             THEN parse_float_end(text, off + 1)
             ELSE LET t1 == parse_float_nibble(nibble1, text)
                  IN  IF ~IsSome(t1) THEN Err("InvalidFloat")
                      ELSE IF nibble2 = END_OF_FLOAT_FLAG
                      THEN parse_float_end(t1[1], off + 1)
                      ELSE LET t2 == parse_float_nibble(nibble2, t1[1])
                           IN  IF ~IsSome(t2) THEN Err("InvalidFloat")
                               ELSE parse_float(data, off + 1, t2[1])

\* s.read::<u32>()? as i32
Stream_read_i32(data, off) ==
    IF off + 4 <= Len(data)
    THEN Some((IF data[off + 1] >= 128 THEN data[off + 1] - 256
               ELSE data[off + 1]) * 16777216
              + parse_be(SubSeq(data, off + 2, off + 4)))
    ELSE None

\* Mutant of NegativeNumber: the range of 251..254 starts at -107.
NegativeNumber_from_107(b0, b1) == -(b0 - 251) * 256 - b1 - 107

\* The number of the lead byte b0 in 251..=254 and the byte b1.
NegativeNumber(b0, b1) == -(b0 - 251) * 256 - b1 - 108

\* parse_number(b0, s) with the Stream at off, after b0.
parse_number(b0, data, off) ==
    IF b0 = 28
    THEN LET n == Stream_read(data, off, 2)
         IN  IF ~IsSome(n) THEN Err("ReadOutOfBounds")
             ELSE OkAt(Integer(n[1]), off + 2)
    ELSE IF b0 = 29
    THEN LET n == Stream_read_i32(data, off)
         IN  IF ~IsSome(n) THEN Err("ReadOutOfBounds")
             ELSE OkAt(Integer(n[1]), off + 4)
    ELSE IF b0 = 30 THEN parse_float(data, off, <<>>)
    ELSE IF b0 \in 32..246 THEN OkAt(Integer(b0 - 139), off)
    ELSE IF b0 \in 247..250
    THEN LET b1 == Stream_read(data, off, 1)
         IN  IF ~IsSome(b1) THEN Err("ReadOutOfBounds")
             ELSE OkAt(Integer((b0 - 247) * 256 + b1[1] + 108), off + 1)
    ELSE IF b0 \in 251..254
    THEN LET b1 == Stream_read(data, off, 1)
         IN  IF ~IsSome(b1) THEN Err("ReadOutOfBounds")
             ELSE OkAt(Integer(NegativeNumber(b0, b1[1])), off + 1)
    ELSE Err("InvalidOperand")

\* The 30 branch of skip_number: bytes are passed until one holds the end
\* flag in a nibble, or the data ends.
RECURSIVE skip_float(_, _)
skip_float(data, off) ==
    IF off >= Len(data) THEN off
    ELSE IF data[off + 1] \div 16 = END_OF_FLOAT_FLAG
            \/ data[off + 1] % 16 = END_OF_FLOAT_FLAG
    THEN off + 1
    ELSE skip_float(data, off + 1)

\* Mutant of skip_number: the 29 form is passed as if it were two bytes long.
skip_number_short(b0, data, off) ==
    IF b0 = 28 THEN Some(off + 2)
    ELSE IF b0 = 29 THEN Some(off + 2)
    ELSE IF b0 = 30 THEN Some(skip_float(data, off))
    ELSE IF b0 \in 32..246 THEN Some(off)
    ELSE IF b0 \in 247..254 THEN Some(off + 1)
    ELSE None

\* skip_number(b0, s): the Stream's offset afterwards, or None.  skip
\* moves the offset without a check.
skip_number(b0, data, off) ==
    IF b0 = 28 THEN Some(off + 2)
    ELSE IF b0 = 29 THEN Some(off + 4)
    ELSE IF b0 = 30 THEN Some(skip_float(data, off))
    ELSE IF b0 \in 32..246 THEN Some(off)
    ELSE IF b0 \in 247..254 THEN Some(off + 1)
    ELSE None

(***************************************************************************)
(* DictionaryParser: [data, offset, operands_offset, operands].            *)
(***************************************************************************)
CHAR_STRINGS_OFFSET == 17
PRIVATE_DICT_SIZE_AND_OFFSET == 18
LOCAL_SUBROUTINES_OFFSET == 19

DictionaryParser_new(data) ==
    [data |-> data, offset |-> 0, operands_offset |-> 0, operands |-> <<>>]

\* The loop of parse_next with the Stream at off: the operator found and
\* the offset after it, or None.
RECURSIVE NextOperator(_, _)
NextOperator(data, off) ==
    IF off >= Len(data) THEN None
    ELSE LET b == data[off + 1]
         IN  IF b <= 21
             THEN IF b = TWO_BYTE_OPERATOR_MARK
                  THEN IF off + 2 <= Len(data)
                       THEN Some([operator |-> 1200 + data[off + 2],
                                  off |-> off + 2])
                       ELSE None
                  ELSE Some([operator |-> b, off |-> off + 1])
             ELSE LET n == skip_number(b, data, off + 1)
                  IN  IF ~IsSome(n) THEN None ELSE NextOperator(data, n[1])

\* parse_next: [operator: Option, dp: the parser afterwards].
DictionaryParser_parse_next(dp) ==
    LET r == NextOperator(dp.data, dp.offset)
    IN  IF IsSome(r)
        THEN [operator |-> Some(r[1].operator),
              dp |-> [dp EXCEPT !.operands_offset = dp.offset,
                                !.offset = r[1].off]]
        ELSE [operator |-> None,
              dp |-> [dp EXCEPT !.operands_offset = dp.offset]]

\* Mutant of Operands: the loop does not stop at MAX_OPERANDS_LEN operands.
RECURSIVE Operands_unbounded(_, _, _)
Operands_unbounded(data, off, operands) ==
    IF off >= Len(data) THEN OkAt(operands, off)
    ELSE LET b == data[off + 1]
         IN  IF b <= 21 THEN OkAt(operands, off + 1)
             ELSE LET op == parse_number(b, data, off + 1)
                  IN  IF ~op.ok THEN op
                      ELSE Operands_unbounded(data, op.off,
                                              Append(operands, op.val))

\* The loop of parse_operands with the Stream at off.
RECURSIVE Operands(_, _, _)
Operands(data, off, operands) ==
    IF off >= Len(data) THEN OkAt(operands, off)
    ELSE LET b == data[off + 1]
         IN  IF b <= 21 THEN OkAt(operands, off + 1)
             ELSE LET op == parse_number(b, data, off + 1)
                  IN  IF ~op.ok THEN op
                      ELSE IF Len(operands) + 1 >= MAX_OPERANDS_LEN
                      THEN OkAt(Append(operands, op.val), op.off)
                      ELSE Operands(data, op.off, Append(operands, op.val))

\* parse_operands, then operands(): val is the operands of the operator
\* that parse_next returned last.
DictionaryParser_parse_operands(dp) ==
    Operands(dp.data, dp.operands_offset, <<>>)

\* The operands buffer that the loop of parse_operands leaves, whether it
\* ends at an operator, at the 48th operand, at the end of the data or with
\* an error: the numbers decoded until then.
RECURSIVE OperandsBuffer(_, _, _)
OperandsBuffer(data, off, operands) ==
    IF off >= Len(data) \/ data[off + 1] <= 21 THEN operands
    ELSE LET op == parse_number(data[off + 1], data, off + 1)
         IN  IF ~op.ok THEN operands
             ELSE IF Len(operands) + 1 >= MAX_OPERANDS_LEN
             THEN Append(operands, op.val)
             ELSE OperandsBuffer(data, op.off, Append(operands, op.val))

(***************************************************************************)
(* usize.  An i32 cast to usize keeps its value when it is not negative;   *)
(* a negative n becomes 2^W + n, W the width of usize, and is kept as n:   *)
(* a negative usize of the model is above every length.                    *)
(***************************************************************************)
usize_checked_add(a, b) ==
    IF a < 0 /\ b < 0 THEN None
    ELSE IF (a < 0 \/ b < 0) /\ a + b >= 0 THEN None
    ELSE Some(a + b)

\* data.try_slice(start..end)
try_slice_usize(data, start, end) ==
    IF start < 0 \/ end < 0 THEN None ELSE try_slice(data, start, end)

\* The result of parse_top_dict.
TopDictResult(char_strings_offset, private_dict_range) ==
    OkAt([char_strings_offset |-> char_strings_offset,
          private_dict_range |-> private_dict_range], 0)

\* top_dict_operator::CHAR_STRINGS_OFFSET: the offset after the operator.
CharStringsOffsetOf(operator, operands, char_strings_offset) ==
    IF operator = CHAR_STRINGS_OFFSET /\ Len(operands) = 1
    THEN Number_as_i32(operands[1])
    ELSE char_strings_offset

\* start..end when start.checked_add(len) is Some.
RangeOf(len, start, private_dict_range) ==
    IF IsSome(usize_checked_add(start, len))
    THEN Some([start |-> start, end |-> usize_checked_add(start, len)[1]])
    ELSE private_dict_range

\* top_dict_operator::PRIVATE_DICT_SIZE_AND_OFFSET: the range after the
\* operator.
PrivateDictRangeOf(operator, operands, private_dict_range) ==
    IF operator = PRIVATE_DICT_SIZE_AND_OFFSET /\ Len(operands) = 2
    THEN RangeOf(Number_as_i32(operands[1]), Number_as_i32(operands[2]),
                 private_dict_range)
    ELSE private_dict_range

\* The loop of parse_top_dict: TopDictLoop parses the next operator,
\* TopDictOperator its operands, TopDictBreak is the test that ends the loop.
RECURSIVE TopDictLoop(_, _, _)
TopDictBreak(dp, char_strings_offset, private_dict_range) ==
    IF char_strings_offset # 0 /\ IsSome(private_dict_range)
    THEN TopDictResult(char_strings_offset, private_dict_range)
    ELSE TopDictLoop(dp, char_strings_offset, private_dict_range)

TopDictOperands(dp, operator, r, char_strings_offset, private_dict_range) ==
    IF ~r.ok THEN r
    ELSE TopDictBreak(dp,
             CharStringsOffsetOf(operator, r.val, char_strings_offset),
             PrivateDictRangeOf(operator, r.val, private_dict_range))

TopDictOperator(nx, char_strings_offset, private_dict_range) ==
    IF ~IsSome(nx.operator)
    THEN TopDictResult(char_strings_offset, private_dict_range)
    ELSE TopDictOperands(nx.dp, nx.operator[1],
             IF nx.operator[1] \in {CHAR_STRINGS_OFFSET,
                                    PRIVATE_DICT_SIZE_AND_OFFSET}
             THEN DictionaryParser_parse_operands(nx.dp)
             ELSE OkAt(<<>>, 0),
             char_strings_offset, private_dict_range)

TopDictLoop(dp, char_strings_offset, private_dict_range) ==
    TopDictOperator(DictionaryParser_parse_next(dp),
                    char_strings_offset, private_dict_range)

\* parse_top_dict after the Top DICT was parsed with the result r: off is
\* the Stream's offset after the Top DICT INDEX.
TopDictParsed(r, off) == IF ~r.ok THEN r ELSE OkAt(r.val, off)

\* parse_top_dict after index.get(0).
TopDictOfData(dict, off) ==
    IF ~IsSome(dict) THEN Err("NoCharStrings")
    ELSE TopDictParsed(TopDictLoop(DictionaryParser_new(dict[1]), 0, None), off)

\* parse_top_dict after parse_index(s).
TopDictOfIndex(index) ==
    IF ~index.ok THEN index
    ELSE TopDictOfData(DataIndex_get(index.val, 0), index.off)

\* parse_top_dict: val is (char_strings_offset, private_dict_range), off
\* the Stream's offset after the Top DICT INDEX.
parse_top_dict(data, off) == TopDictOfIndex(parse_index(data, off))

\* The loop of parse_private_dict: PrivateDictLoop parses the next
\* operator, PrivateDictOperands is the result for the operands of 19.
PrivateDictOperands(r) ==
    IF ~r.ok THEN r
    ELSE IF Len(r.val) = 1 THEN OkAt(Some(Number_as_i32(r.val[1])), 0)
    ELSE OkAt(None, 0)

RECURSIVE PrivateDictLoop(_)
PrivateDictOperator(nx) ==
    IF ~IsSome(nx.operator) THEN OkAt(None, 0)
    ELSE IF nx.operator[1] = LOCAL_SUBROUTINES_OFFSET
    THEN PrivateDictOperands(DictionaryParser_parse_operands(nx.dp))
    ELSE PrivateDictLoop(nx.dp)

PrivateDictLoop(dp) == PrivateDictOperator(DictionaryParser_parse_next(dp))

\* parse_private_dict: val is the subroutines_offset, an Option.
parse_private_dict(data) == PrivateDictLoop(DictionaryParser_new(data))

\* Mutant of calc_subroutine_bias: the first threshold is off by one.
calc_subroutine_bias_le(len) ==
    IF len <= 1240 THEN 107
    ELSE IF len < 33900 THEN 1131
    ELSE 32768

\* Mutant of calc_subroutine_bias: the middle bias reaches one count further.
calc_subroutine_bias_wide(len) ==
    IF len < 1240 THEN 107
    ELSE IF len < 33901 THEN 1131
    ELSE 32768

calc_subroutine_bias(len) ==
    IF len < 1240 THEN 107
    ELSE IF len < 33900 THEN 1131
    ELSE 32768

(***************************************************************************)
(* ArgumentsStack.  The model keeps the live part data[..len] as a         *)
(* sequence.                                                               *)
(***************************************************************************)

\* Mutant of ArgumentsStack_push: the limit is tested one push too late.
ArgumentsStack_push_late(st, n) ==
    IF Len(st) = MAX_ARGUMENTS_STACK_LEN + 1
    THEN [ok |-> FALSE, stack |-> st]
    ELSE [ok |-> TRUE, stack |-> Append(st, n)]

\* push: [ok, stack]
ArgumentsStack_push(st, n) ==
    IF Len(st) = MAX_ARGUMENTS_STACK_LEN
    THEN [ok |-> FALSE, stack |-> st]
    ELSE [ok |-> TRUE, stack |-> Append(st, n)]

ArgumentsStack_at(st, index) == st[index + 1]
ArgumentsStack_top(st) == st[Len(st)]
ArgumentsStack_pop(st) == SubSeq(st, 1, Len(st) - 1)
\* The stack after n pops.
PopN(st, n) == SubSeq(st, 1, Len(st) - n)

(***************************************************************************)
(* The outline builder: every point updates the box, then is forwarded.    *)
(***************************************************************************)
MoveTo(px, py) == [op |-> "move_to", x |-> px, y |-> py]
LineTo(px, py) == [op |-> "line_to", x |-> px, y |-> py]
CurveTo(px1, py1, px2, py2, px, py) ==
    [op |-> "curve_to", x1 |-> px1, y1 |-> py1, x2 |-> px2, y2 |-> py2,
     x |-> px, y |-> py]
Close == [op |-> "close"]

update_bbox(b, px, py) ==
    [b EXCEPT !.x_min = Min(@, px), !.y_min = Min(@, py),
              !.x_max = Max(@, px), !.y_max = Max(@, py)]

\* The box after one builder call.
Builder_call(b, c) ==
    IF c.op = "curve_to"
    THEN update_bbox(update_bbox(update_bbox(b, c.x1, c.y1), c.x2, c.y2), c.x, c.y)
    ELSE IF c.op = "close" THEN b
    ELSE update_bbox(b, c.x, c.y)

RECURSIVE Builder_calls(_, _)
Builder_calls(b, calls) ==
    IF calls = <<>> THEN b
    ELSE Builder_calls(Builder_call(b, Head(calls)), Tail(calls))


(***************************************************************************)
(* The drawing operators of _parse_char_string as functions of the operand *)
(* stack and the pen.  Each returns an outcome                             *)
(*   [x, y: the pen, stack: the operand stack afterwards,                  *)
(*    calls: the builder calls made, in order, err: "" or the error].      *)
(***************************************************************************)
Outcome(px, py, st, calls, err) ==
    [x |-> px, y |-> py, stack |-> st, calls |-> calls, err |-> err]

\* `while i < lim { x += at(i); y += at(i+1); line_to; i += 2 }`
RECURSIVE LineRun(_, _, _, _, _, _)
LineRun(st, i, lim, px, py, acc) ==
    IF i >= lim THEN [x |-> px, y |-> py, calls |-> acc, i |-> i]
    ELSE LET nx == px + ArgumentsStack_at(st, i)
             ny == py + ArgumentsStack_at(st, i + 1)
         IN  LineRun(st, i + 2, lim, nx, ny, Append(acc, LineTo(nx, ny)))

\* `while i < lim { ...; curve_to(x1, y1, x2, y2, x, y); i += 6 }`
RECURSIVE CurveRun(_, _, _, _, _, _)
CurveRun(st, i, lim, px, py, acc) ==
    IF i >= lim THEN [x |-> px, y |-> py, calls |-> acc, i |-> i]
    ELSE LET x1 == px + ArgumentsStack_at(st, i)
             y1 == py + ArgumentsStack_at(st, i + 1)
             x2 == x1 + ArgumentsStack_at(st, i + 2)
             y2 == y1 + ArgumentsStack_at(st, i + 3)
             nx == x2 + ArgumentsStack_at(st, i + 4)
             ny == y2 + ArgumentsStack_at(st, i + 5)
         IN  CurveRun(st, i + 6, lim, nx, ny,
                      Append(acc, CurveTo(x1, y1, x2, y2, nx, ny)))

relative_line_to(st, px, py) ==
    IF is_odd(Len(st))
    THEN Outcome(px, py, st, <<>>, "InvalidArgumentsStackLength")
    ELSE LET r == LineRun(st, 0, Len(st), px, py, <<>>)
         IN  Outcome(r.x, r.y, <<>>, r.calls, "")

\* The alternating loop of hlineto (horizontal = TRUE) and vlineto.
RECURSIVE AltLineRun(_, _, _, _, _, _)
AltLineRun(st, i, px, py, acc, horizontal) ==
    IF i >= Len(st) THEN [x |-> px, y |-> py, calls |-> acc]
    ELSE LET nx == IF horizontal THEN px + ArgumentsStack_at(st, i) ELSE px
             ny == IF horizontal THEN py ELSE py + ArgumentsStack_at(st, i)
         IN  AltLineRun(st, i + 1, nx, ny, Append(acc, LineTo(nx, ny)),
                        ~horizontal)

\* Mutant of horizontal_line_to: the first line is vertical.
horizontal_line_to_vertical(st, px, py) ==
    LET r == AltLineRun(st, 0, px, py, <<>>, FALSE)
    IN  Outcome(r.x, r.y, <<>>, r.calls, "")

horizontal_line_to(st, px, py) ==
    LET r == AltLineRun(st, 0, px, py, <<>>, TRUE)
    IN  Outcome(r.x, r.y, <<>>, r.calls, "")

\* Mutant of vertical_line_to: the first line is horizontal.
vertical_line_to_horizontal(st, px, py) ==
    LET r == AltLineRun(st, 0, px, py, <<>>, TRUE)
    IN  Outcome(r.x, r.y, <<>>, r.calls, "")

vertical_line_to(st, px, py) ==
    LET r == AltLineRun(st, 0, px, py, <<>>, FALSE)
    IN  Outcome(r.x, r.y, <<>>, r.calls, "")

relative_curve_to(st, px, py) ==
    IF Len(st) % 6 # 0
    THEN Outcome(px, py, st, <<>>, "InvalidArgumentsStackLength")
    ELSE LET r == CurveRun(st, 0, Len(st), px, py, <<>>)
         IN  Outcome(r.x, r.y, <<>>, r.calls, "")

relative_curve_line(st, px, py) ==
    IF Len(st) < 8 \/ (Len(st) - 2) % 6 # 0
    THEN Outcome(px, py, st, <<>>, "InvalidArgumentsStackLength")
    ELSE LET r  == CurveRun(st, 0, Len(st) - 2, px, py, <<>>)
             nx == r.x + ArgumentsStack_at(st, r.i)
             ny == r.y + ArgumentsStack_at(st, r.i + 1)
         IN  Outcome(nx, ny, <<>>, Append(r.calls, LineTo(nx, ny)), "")

relative_line_curve(st, px, py) ==
    IF Len(st) < 8 \/ is_odd(Len(st) - 6)
    THEN Outcome(px, py, st, <<>>, "InvalidArgumentsStackLength")
    ELSE LET r == LineRun(st, 0, Len(st) - 6, px, py, <<>>)
             c == CurveRun(st, r.i, r.i + 6, r.x, r.y, r.calls)
         IN  Outcome(c.x, c.y, <<>>, c.calls, "")

\* `while i < len { ... ; i += 4 }` of vvcurveto.
RECURSIVE VVRun(_, _, _, _, _)
VVRun(st, i, px, py, acc) ==
    IF i >= Len(st) THEN [x |-> px, y |-> py, calls |-> acc]
    ELSE LET x1 == px
             y1 == py + ArgumentsStack_at(st, i)
             x2 == x1 + ArgumentsStack_at(st, i + 1)
             y2 == y1 + ArgumentsStack_at(st, i + 2)
             nx == x2
             ny == y2 + ArgumentsStack_at(st, i + 3)
         IN  VVRun(st, i + 4, nx, ny, Append(acc, CurveTo(x1, y1, x2, y2, nx, ny)))

vv_curve_to(st, px, py) ==
    LET odd == is_odd(Len(st))
        i   == IF odd THEN 1 ELSE 0
        sx  == IF odd THEN px + ArgumentsStack_at(st, 0) ELSE px
    IN  IF (Len(st) - i) % 4 # 0
        THEN Outcome(sx, py, st, <<>>, "InvalidArgumentsStackLength")
        ELSE LET r == VVRun(st, i, sx, py, <<>>)
             IN  Outcome(r.x, r.y, <<>>, r.calls, "")

\* `while i < len { ... ; i += 4 }` of hhcurveto.
RECURSIVE HHRun(_, _, _, _, _)
HHRun(st, i, px, py, acc) ==
    IF i >= Len(st) THEN [x |-> px, y |-> py, calls |-> acc]
    ELSE LET x1 == px + ArgumentsStack_at(st, i)
             y1 == py
             x2 == x1 + ArgumentsStack_at(st, i + 1)
             y2 == y1 + ArgumentsStack_at(st, i + 2)
             nx == x2 + ArgumentsStack_at(st, i + 3)
             ny == y2
         IN  HHRun(st, i + 4, nx, ny, Append(acc, CurveTo(x1, y1, x2, y2, nx, ny)))

hh_curve_to(st, px, py) ==
    LET odd == is_odd(Len(st))
        i   == IF odd THEN 1 ELSE 0
        sy  == IF odd THEN py + ArgumentsStack_at(st, 0) ELSE py
    IN  IF (Len(st) - i) % 4 # 0
        THEN Outcome(px, sy, st, <<>>, "InvalidArgumentsStackLength")
        ELSE LET r == HHRun(st, i, px, sy, <<>>)
             IN  Outcome(r.x, r.y, <<>>, r.calls, "")

\* The loop of vhcurveto / hvcurveto on the reversed stack r, of which k
\* values are popped: pop() takes the last of the Len(r) - k that remain.
\* vertical = TRUE is the block whose first tangent is vertical
\* (y1 = y + pop).  The blocks alternate until the stack is empty; a block
\* that finds one value left after its four pops it too, and ends the loop.
RECURSIVE AltCurveRun(_, _, _, _, _, _)
AltCurveRun(r, k, px, py, acc, vertical) ==
    IF k >= Len(r) THEN Outcome(px, py, <<>>, acc, "")
    ELSE IF Len(r) - k < 4
    THEN Outcome(px, py, SubSeq(r, 1, Len(r) - k), acc,
                 "InvalidArgumentsStackLength")
    ELSE LET n  == Len(r) - k
             p1 == r[n]
             p2 == r[n - 1]
             p3 == r[n - 2]
             p4 == r[n - 3]
             ex == IF n = 5 THEN r[1] ELSE 0
             x1 == IF vertical THEN px ELSE px + p1
             y1 == IF vertical THEN py + p1 ELSE py
             x2 == x1 + p2
             y2 == y1 + p3
             nx == IF vertical THEN x2 + p4 ELSE x2 + ex
             ny == IF vertical THEN y2 + ex ELSE y2 + p4
             calls == Append(acc, CurveTo(x1, y1, x2, y2, nx, ny))
         IN  IF n = 5 THEN Outcome(nx, ny, <<>>, calls, "")
             ELSE AltCurveRun(r, k + 4, nx, ny, calls, ~vertical)

\* Mutant of vh_curve_to: the first tangent is horizontal.
vh_curve_to_horizontal(st, px, py) ==
    IF Len(st) < 4
    THEN Outcome(px, py, st, <<>>, "InvalidArgumentsStackLength")
    ELSE AltCurveRun(Reverse(st), 0, px, py, <<>>, FALSE)

vh_curve_to(st, px, py) ==
    IF Len(st) < 4
    THEN Outcome(px, py, st, <<>>, "InvalidArgumentsStackLength")
    ELSE AltCurveRun(Reverse(st), 0, px, py, <<>>, TRUE)

hv_curve_to(st, px, py) ==
    IF Len(st) < 4
    THEN Outcome(px, py, st, <<>>, "InvalidArgumentsStackLength")
    ELSE AltCurveRun(Reverse(st), 0, px, py, <<>>, FALSE)

hflex(st, px, py) ==
    IF Len(st) # 7
    THEN Outcome(px, py, st, <<>>, "InvalidArgumentsStackLength")
    ELSE LET dx1 == px + st[1]
             dy1 == py
             dx2 == dx1 + st[2]
             dy2 == dy1 + st[3]
             dx3 == dx2 + st[4]
             dy3 == dy2
             dx4 == dx3 + st[5]
             dy4 == dy2
             dx5 == dx4 + st[6]
             dy5 == py
             nx  == dx5 + st[7]
         IN  Outcome(nx, py, <<>>,
                     <<CurveTo(dx1, dy1, dx2, dy2, dx3, dy3),
                       CurveTo(dx4, dy4, dx5, dy5, nx, py)>>, "")

flex(st, px, py) ==
    IF Len(st) # 13
    THEN Outcome(px, py, st, <<>>, "InvalidArgumentsStackLength")
    ELSE LET dx1 == px + st[1]
             dy1 == py + st[2]
             dx2 == dx1 + st[3]
             dy2 == dy1 + st[4]
             dx3 == dx2 + st[5]
             dy3 == dy2 + st[6]
             dx4 == dx3 + st[7]
             dy4 == dy3 + st[8]
             dx5 == dx4 + st[9]
             dy5 == dy4 + st[10]
             nx  == dx5 + st[11]
             ny  == dy5 + st[12]
         IN  Outcome(nx, ny, <<>>,
                     <<CurveTo(dx1, dy1, dx2, dy2, dx3, dy3),
                       CurveTo(dx4, dy4, dx5, dy5, nx, ny)>>, "")

hflex1(st, px, py) ==
    IF Len(st) # 9
    THEN Outcome(px, py, st, <<>>, "InvalidArgumentsStackLength")
    ELSE LET dx1 == px + st[1]
             dy1 == py + st[2]
             dx2 == dx1 + st[3]
             dy2 == dy1 + st[4]
             dx3 == dx2 + st[5]
             dy3 == dy2
             dx4 == dx3 + st[6]
             dy4 == dy2
             dx5 == dx4 + st[7]
             dy5 == dy4 + st[8]
             nx  == dx5 + st[9]
         IN  Outcome(nx, py, <<>>,
                     <<CurveTo(dx1, dy1, dx2, dy2, dx3, dy3),
                       CurveTo(dx4, dy4, dx5, dy5, nx, py)>>, "")

\* Mutant of flex1: a tie counts as wide.
flex1_ties_wide(st, px, py) ==
    IF Len(st) # 11
    THEN Outcome(px, py, st, <<>>, "InvalidArgumentsStackLength")
    ELSE LET dx1 == px + st[1]
             dy1 == py + st[2]
             dx2 == dx1 + st[3]
             dy2 == dy1 + st[4]
             dx3 == dx2 + st[5]
             dy3 == dy2 + st[6]
             dx4 == dx3 + st[7]
             dy4 == dy3 + st[8]
             dx5 == dx4 + st[9]
             dy5 == dy4 + st[10]
             wide == f32_abs(dx5 - px) >= f32_abs(dy5 - py)
             nx  == IF wide THEN dx5 + st[11] ELSE px
             ny  == IF wide THEN py ELSE dy5 + st[11]
         IN  Outcome(nx, ny, <<>>,
                     <<CurveTo(dx1, dy1, dx2, dy2, dx3, dy3),
                       CurveTo(dx4, dy4, dx5, dy5, nx, ny)>>, "")

flex1(st, px, py) ==
    IF Len(st) # 11
    THEN Outcome(px, py, st, <<>>, "InvalidArgumentsStackLength")
    ELSE LET dx1 == px + st[1]
             dy1 == py + st[2]
             dx2 == dx1 + st[3]
             dy2 == dy1 + st[4]
             dx3 == dx2 + st[5]
             dy3 == dy2 + st[6]
             dx4 == dx3 + st[7]
             dy4 == dy3 + st[8]
             dx5 == dx4 + st[9]
             dy5 == dy4 + st[10]
             wide == f32_abs(dx5 - px) > f32_abs(dy5 - py)
             nx  == IF wide THEN dx5 + st[11] ELSE px
             ny  == IF wide THEN py ELSE dy5 + st[11]
         IN  Outcome(nx, ny, <<>>,
                     <<CurveTo(dx1, dy1, dx2, dy2, dx3, dy3),
                       CurveTo(dx4, dy4, dx5, dy5, nx, ny)>>, "")

(***************************************************************************)
(* The fonts of the model.  A font gives the CharStrings of its local and  *)
(* global subroutines; the glyph CharString is chosen by Init.             *)
(***************************************************************************)
\* The one-byte operand encoding of a small integer (32..246 push b - 139).
P(n) == n + 139

\* The DataIndex parse_index yields for an INDEX of these items with offSize 1:
\* the count+1 offsets (1-based, one byte each) and the concatenated payload.
RECURSIVE Concat(_, _, _)
Concat(items, lo, hi) ==
    IF lo > hi THEN <<>>
    ELSE IF lo = hi THEN items[lo]
    ELSE LET mid == (lo + hi) \div 2
         IN  Concat(items, lo, mid) \o Concat(items, mid + 1, hi)

IndexOffsets(items) ==
    [i \in 1..(Len(items) + 1) |-> 1 + Len(Concat(items, 1, i - 1))]

IndexData(items) == Concat(items, 1, Len(items))

MkIndex(items) ==
    IF items = <<>> THEN DataIndex_default
    ELSE [data |-> IndexData(items),
          offsets |-> [data |-> IndexOffsets(items), offset_size |-> 1]]

LocalSubrs ==
    << <<P(-107), 10>>,                       \* 0: calls itself
       <<P(-107), 29>>,                       \* 1: calls global 0
       <<P(10), 7, 11, 14>>,                  \* 2: 10 vlineto return (endchar)
       <<P(1), P(1), P(1), P(1), P(1), P(-104), 10>>,
                                              \* 3: five operands, calls itself
       <<P(1), P(1), P(1), 1>>,               \* 4: width 1, hstem 1 1
       <<P(1), 22, 13>>,                      \* 5: 1 hmoveto, reserved 13
       <<P(2), 4, 12, 38>>,                   \* 6: 2 vmoveto, escape 38
       <<P(1), P(2), 19, 14, 11, 14>>,        \* 7: 1 2 hintmask, a mask byte,
                                              \*    return, endchar
       <<21, P(1), P(2), P(3)>> >>            \* 8: rmoveto, pushes 1 2 3

GlobalSubrs ==
    << <<P(-106), 10>>,                       \* 0: calls local 1
       <<28, 127, 255, 22, 28, 127, 255, 6>>, \* 1: 32767 hmoveto 32767 hlineto
       <<255, 255, 255, 128, 0>>,             \* 2: pushes -0.5
       <<P(1), 22, 11>>,                      \* 3: 1 hmoveto return
       <<P(1), P(1), 4>>,                     \* 4: 1 1 vmoveto
       <<21, P(1), P(2), P(3)>> >>            \* 5: rmoveto, pushes 1 2 3

\* A font with 1240 local subroutines (bias 1131) and 5 global ones (bias
\* 107): local 0 and local 1024 draw, the others are empty.
BigCount == 1240
BigLocalSubrs ==
    [i \in 1..BigCount |->
        IF i = 1 THEN <<P(7), 22>>
        ELSE IF i = 1025 THEN <<P(9), 4>>
        ELSE <<>>]

\* The subroutines of each font, by font name.
Fonts ==
    [small |-> [local |-> LocalSubrs, global |-> GlobalSubrs],
     empty |-> [local |-> <<>>, global |-> <<>>],
     big   |-> [local |-> BigLocalSubrs, global |-> GlobalSubrs]]

FontNames == {"small", "empty", "big"}

\* The subroutine INDEXes of each font.
FontIndexes ==
    [n \in FontNames |->
        [local_subrs  |-> MkIndex(Fonts[n].local),
         global_subrs |-> MkIndex(Fonts[n].global)]]

\* The bytes generated glyph CharStrings are made of: operands selecting
\* subroutines 0..4, the operand 1, calls, return, endchar, a stem, hintmask,
\* the three movetos and hlineto.
Alphabet ==
    { P(-107), P(-106), P(-105), P(-104), P(-103), P(1),
      10, 29, 11, 14, 1, 19, 4, 21, 22, 6 }

GeneratedGlyphs == UNION { [1..n -> Alphabet] : n \in 0..MaxLen }

\* 48 operands: a full stack.
Fill48 == [i \in 1..MAX_ARGUMENTS_STACK_LEN |-> P(1)]

\* CharStrings that exercise the operators the alphabet leaves out.
HandGlyphs ==
    { <<P(10), P(10), 21, P(20), P(0), P(0), P(20), P(-20), P(0), 8, 14>>,
      <<P(50), 22, P(100), 6, 14>>,
      <<P(0), P(0), 22, P(-105), 10, 14>>,
      <<P(1), P(2), 5, P(3), 5>>,
      <<P(1), P(2), P(3), 7>>,
      <<P(1), 8>>,
      <<P(1), P(2), P(3), P(4), P(5), P(6), P(7), P(8), 24>>,
      <<P(1), P(2), P(3), P(4), P(5), P(6), P(7), P(8), 25>>,
      <<P(1), P(2), P(3), P(4), P(5), P(6), P(7), 24>>,
      <<P(1), P(2), P(3), P(4), P(5), P(6), P(7), 25>>,
      <<P(1), P(2), P(3), P(4), P(5), 26>>,
      <<P(1), P(2), P(3), P(4), 27>>,
      <<P(1), P(2), P(3), 26>>,
      <<P(1), P(2), 27>>,
      <<P(1), P(2), P(3), P(4), P(5), P(6), P(7), P(8), P(9), 30>>,
      <<P(1), P(2), P(3), P(4), P(5), 31>>,
      <<P(1), P(2), P(3), P(4), P(5), P(6), 30>>,
      <<P(1), P(2), P(3), 31>>,
      <<P(1), P(2), P(3), P(4), P(5), P(6), P(7), 12, 34>>,
      <<P(1), P(2), P(3), P(4), P(5), P(6), P(7), P(8), P(9), P(10), P(11),
        P(12), P(13), 12, 35>>,
      <<P(1), P(2), P(3), P(4), P(5), P(6), P(7), P(8), P(9), 12, 36>>,
      <<P(1), P(2), P(3), P(4), P(5), P(6), P(7), P(8), P(9), P(10), P(11),
        12, 37>>,
      <<P(9), P(1), P(1), P(1), P(1), P(1), P(1), P(1), P(1), P(1), P(5),
        12, 37>>,
      <<P(1), 12, 34>>,
      <<12, 0>>,
      <<12>>,
      <<P(1), 22, 2>>,
      <<247, 0, 251, 0, 21, 250, 255, 6>>,
      <<247>>,
      <<254, 255, 22, 251>>,
      <<28, 255, 255, 22, 28, 128, 0, 28, 0, 1, 21, 28, 0>>,
      <<255, 0, 1, 128, 0, 22, 255, 255, 254, 128, 0, 6, 255, 0>>,
      <<P(1), P(2), P(3), 3, P(4), P(5), 18, P(6), 23, 19, 0, 14>>,
      <<P(1), P(2), 19, 0, P(7), 20, 1, 2>>,
      <<P(1), P(2), 1, 20>>,
      <<P(1), 4, P(5), P(1), 22>>,
      <<P(-103), 10, P(1), 1, 14>>,
      <<P(1), 22, P(1), 4, 14, P(1), 22, P(-105), 10>>,
      Fill48 \o <<P(1)>>,
      Fill48 \o <<28, 0, 1>>,
      Fill48 \o <<247, 0>>,
      Fill48 \o <<251, 0>>,
      Fill48 \o <<255, 0, 1, 0, 0>> }

\* CharStrings that draw and then hold a reserved byte or an escape that is
\* no flex, in the glyph itself or in local subroutine 5 or 6.
BadOperatorGlyphs ==
    { <<P(1), 22, b, P(2), 4>> : b \in {0, 2, 9, 13, 15, 16, 17} }
    \cup { <<P(1), 22, 12, b, P(2), 4>> : b \in {0, 33, 38, 255} }
    \cup { <<P(3), 22, P(-102), 10, P(4), 22, 14>>,
           <<P(3), 22, P(-101), 10, P(4), 22, 14>> }

\* CharStrings in which endchar finds operands on the stack, with the width
\* taken before (by a stem, by a moveto) or not, and go on after it.
EndCharGlyphs ==
    { <<P(1), P(2), P(3), 1, P(5), 14, P(7), 22>>,
      <<P(1), P(2), 22, P(5), P(6), 14, 6>>,
      <<P(-103), 10, P(5), 14, P(7), 22>>,
      <<P(5), 14, P(7), 22>>,
      <<P(5), P(6), 14, P(7), 22, P(8), 14, 6>> }

\* k stem pairs declared by hstemhm.
StemPairs(k) == [i \in 1..(2 * k) |-> P(i)]

\* CharStrings with hintmask and cntrmask: after k declared pairs, with
\* residual operands, after stems declared in local subroutine 4 or 7.  The
\* bytes after the mask operator are endchar bytes, so a mask byte that is
\* not skipped is executed.
MaskGlyphs ==
    { StemPairs(k) \o <<18, m, 14, 14, 14, P(4), 22>> :
          k \in {0, 1, 7, 8, 9, 16, 17}, m \in {19, 20} }
    \cup { <<P(1), P(2), P(3), 1, 19, 255, P(4), 22>>,
           <<P(1), P(2), P(3), 19, 255, P(4), 22>>,
           <<P(1), 22, P(1), P(2), P(3), 20, 255, P(4), 6>>,
           <<P(-103), 10, 19, 14, P(4), 22>>,
           <<P(1), P(2), P(3), P(4), 1, P(-100), 10, 19, 14, P(4), 22>>,
           StemPairs(7) \o <<3, P(-100), 10, P(1), P(2), 20, 14, 14, P(4), 22>> }

\* n operands and hlineto or vlineto, after a moveto to (3, 4).
LineToOperands(n) == [i \in 1..n |-> P(11 * i)]
LineToGlyphs ==
    { <<P(3), P(4), 21>> \o LineToOperands(n) \o <<op>> :
          n \in 0..6, op \in {6, 7} }

\* n operands and vhcurveto or hvcurveto, and the four flex operators.
CurveOperands(n) == [i \in 1..n |-> P(5 * i - 32)]
CurveGlyphs ==
    { CurveOperands(n) \o <<op, P(1), 22>> : n \in 0..14, op \in {30, 31} }
FlexGlyphs ==
    { <<P(3), P(4), 21>> \o CurveOperands(n) \o <<12, op, P(1), 22>> :
          n \in 0..14, op \in {34, 35, 36, 37} }
    \cup { <<P(3), P(4), 21>> \o [i \in 1..11 |-> P(v[i])] \o <<12, 37>> :
             v \in { <<1, 1, 1, 1, 1, 1, 1, 1, 1, 1, 9>>,
                      <<-1, 1, -1, 1, -1, 1, -1, 1, -1, 1, 9>>,
                      <<1, -1, 1, -1, 1, -1, 1, -1, 1, -1, 9>>,
                      <<-20, 1, 1, 1, 1, 1, 1, 1, 1, 1, 9>>,
                      <<1, -20, 1, 1, 1, 1, 1, 1, 1, 1, 9>>,
                      <<0, 0, 0, 0, 0, 0, 0, 0, 0, 0, 9>> } }

\* CharStrings whose subroutine takes operands of the caller and leaves its
\* own for the caller: local 8 and global 5 (rmoveto, then three pushes).
SharingGlyphs ==
    { <<P(5), P(6), P(-99), 10, 7, 14>>,
      <<P(5), P(6), P(-102), 29, 7, 14>>,
      <<P(9), P(5), P(6), P(-99), 10, 6, P(-99), 10>>,
      <<P(1), P(2), P(3), 11, 22>>,
      <<P(1), 22, P(-104), 29, P(2), 6, 14>> }

\* `a hmoveto b hlineto endchar` for small integers a and b.
LineOperands == {-100, -50, 0, 50, 100}
LineGlyph(a, b) == <<P(a), 22, P(b), 6, 14>>
LineGlyphs == { LineGlyph(a, b) : a, b \in LineOperands }

\* CharStrings for the font with 1240 local subroutines.
BigFontGlyphs ==
    { <<254, 255, 10>>,
      <<P(-107), 10, 14>>,
      <<P(-107), 29>>,
      <<254, 255, 29>>,
      <<P(-106), 10>>,
      <<P(107), P(1), 10>>,
      <<254, 255, 10, P(-107), 10, 14>> }

(***************************************************************************)
(* State.                                                                  *)
(***************************************************************************)
VARIABLES
    font,              \* the name of the font the metadata was parsed from
    metadata,          \* Metadata: global_subrs, local_subrs, char_strings
    glyph_id,          \* the glyph asked for
    pc,                \* "start", "run" or "done"
    result,            \* "" while running, then "Ok" or the error
    rect,              \* the Rect returned with Ok
    frames,            \* the active _parse_char_string calls, outermost first:
                       \* [cs: the CharString, off: its Stream offset, x, y]
    stack,             \* the ArgumentsStack shared by all frames
    is_first_move_to,  \* CharStringParserContext
    width_parsed,      \* CharStringParserContext
    stems_len,         \* CharStringParserContext
    bbox,              \* Builder.bbox
    sink,              \* the calls forwarded to the caller's OutlineBuilder
    width_drops,       \* history: operators that dropped operands as a width
    width_op_seen,     \* history: a width-bearing operator has executed
    call,              \* a function under test: [fn, arg], or [fn |-> "render"]
    ret                \* its result: None until it returned, then Some(value)

vars == <<font, metadata, glyph_id, pc, result, rect, frames, stack,
          is_first_move_to, width_parsed, stems_len, bbox, sink,
          width_drops, width_op_seen, call, ret>>

ctx_vars == <<is_first_move_to, width_parsed, stems_len>>
hist_vars == <<width_drops, width_op_seen>>
font_vars == <<font, metadata, glyph_id, call, ret>>

GlyphIds == {0, 1, U16_MAX}

\* The state before the render starts, for the metadata of font f with the
\* CharStrings INDEX cs.
RenderInit(f, cs) ==
    /\ font = f
    /\ metadata = [global_subrs |-> FontIndexes[f].global_subrs,
                   local_subrs  |-> FontIndexes[f].local_subrs,
                   char_strings |-> cs]
    /\ call = [fn |-> "render"]
    /\ ret = None
    /\ pc = "start"
    /\ result = ""
    /\ rect = [x_min |-> 0, y_min |-> 0, x_max |-> 0, y_max |-> 0]
    /\ frames = <<>>
    /\ stack = <<>>
    /\ is_first_move_to = TRUE
    /\ width_parsed = FALSE
    /\ stems_len = 0
    /\ bbox = [x_min |-> F32_MAX, y_min |-> F32_MAX,
               x_max |-> F32_MIN, y_max |-> F32_MIN]
    /\ sink = <<>>
    /\ width_drops = 0
    /\ width_op_seen = FALSE

SmallGlyphIndexes ==
    { MkIndex(<<g>>) : g \in GeneratedGlyphs \cup HandGlyphs \cup LineGlyphs
                             \cup BadOperatorGlyphs \cup EndCharGlyphs
                             \cup MaskGlyphs \cup LineToGlyphs
                             \cup CurveGlyphs \cup FlexGlyphs
                             \cup SharingGlyphs }
        \cup { DataIndex_default }

BigGlyphIndexes == { MkIndex(<<g>>) : g \in BigFontGlyphs }

Init ==
    /\ \/ \E f \in {"small", "empty"}, cs \in SmallGlyphIndexes : RenderInit(f, cs)
       \/ \E cs \in BigGlyphIndexes : RenderInit("big", cs)
    /\ glyph_id \in GlyphIds

(***************************************************************************)
(* The current frame and its Stream.                                       *)
(***************************************************************************)
depth == Len(frames) - 1
Cur == frames[Len(frames)]
at_end(f) == f.off >= Len(f.cs)
\* The loop of _parse_char_string is about to read an operator byte.
Running == pc = "run" /\ ~at_end(Cur)
Op == Cur.cs[Cur.off + 1]
\* n more bytes can be read after the operator byte.
CanRead(n) == Cur.off + 1 + n <= Len(Cur.cs)
\* The k-th byte after the operator byte.
Arg(k) == Cur.cs[Cur.off + 1 + k]

\* The render fails with error e; nothing else changes.
Fail(e) ==
    /\ pc' = "done"
    /\ result' = e
    /\ UNCHANGED <<font_vars, rect, frames>>


\* Mutant of Continue: the operator byte is looked at but not consumed.
Continue_stuck(n, nx, ny) ==
    /\ frames' = [frames EXCEPT ![Len(frames)] = [@ EXCEPT !.x = nx, !.y = ny]]
    /\ UNCHANGED <<font_vars, rect, pc, result>>

\* The current frame goes on, n bytes further, with the pen at (nx, ny).
Continue(n, nx, ny) ==
    /\ frames' = [frames EXCEPT ![Len(frames)] =
                     [@ EXCEPT !.off = @ + n, !.x = nx, !.y = ny]]
    /\ UNCHANGED <<font_vars, rect, pc, result>>

\* The effect of a drawing operator with outcome o that read n bytes.
Draw(o, n) ==
    /\ sink' = sink \o o.calls
    /\ bbox' = Builder_calls(bbox, o.calls)
    /\ stack' = o.stack
    /\ IF o.err = "" THEN Continue(n, o.x, o.y) ELSE Fail(o.err)

(***************************************************************************)
(* parse_char_string: the entry.                                           *)
(***************************************************************************)
parse_char_string ==
    /\ pc = "start"
    /\ LET data == DataIndex_get(metadata.char_strings, glyph_id)
       IN  IF ~IsSome(data)
           THEN Fail("NoGlyph")
           ELSE /\ frames' = <<[cs |-> data[1], off |-> 0, x |-> 0, y |-> 0]>>
                /\ pc' = "run"
                /\ UNCHANGED <<font_vars, rect, result>>
    /\ UNCHANGED <<stack, ctx_vars, bbox, sink, hist_vars>>

(***************************************************************************)
(* Operands.                                                               *)
(***************************************************************************)
\* stack.push(n)? after an operand encoding of `len` bytes.
PushOperand(n, len) ==
    LET r == ArgumentsStack_push(stack, n)
    IN  /\ stack' = r.stack
        /\ IF r.ok THEN Continue(len, Cur.x, Cur.y)
           ELSE Fail("ArgumentsStackLimitReached")
        /\ UNCHANGED <<ctx_vars, bbox, sink, hist_vars>>

ReadFailed ==
    /\ Fail("ReadOutOfBounds")
    /\ UNCHANGED <<stack, ctx_vars, bbox, sink, hist_vars>>

\* The signed 16-bit value of two big-endian bytes.
I16Of(b1, b2) ==
    LET u == b1 * 256 + b2
    IN  IF u > I16_MAX THEN u - (U16_MAX + 1) ELSE u

\* 32..=246
OperandByte ==
    /\ Running /\ Op >= 32 /\ Op <= 246
    /\ PushOperand((Op - 139) * UNIT, 1)

\* 247..=250
OperandPositive ==
    /\ Running /\ Op >= 247 /\ Op <= 250
    /\ IF CanRead(1)
       THEN PushOperand(((Op - 247) * 256 + Arg(1) + 108) * UNIT, 2)
       ELSE ReadFailed

\* 251..=254
OperandNegative ==
    /\ Running /\ Op >= 251 /\ Op <= 254
    /\ IF CanRead(1)
       THEN PushOperand((-(Op - 251) * 256 - Arg(1) - 108) * UNIT, 2)
       ELSE ReadFailed

\* operator::SHORT_INT
ShortInt ==
    /\ Running /\ Op = 28
    /\ IF CanRead(2)
       THEN PushOperand(I16Of(Arg(1), Arg(2)) * UNIT, 3)
       ELSE ReadFailed

\* 255: a 16.16 fixed number, n / 65536.0.  In model units this is
\* n * UNIT / 65536; the fonts of the model have the last byte 0.
OperandFixed ==
    /\ Running /\ Op = 255
    /\ IF CanRead(4)
       THEN PushOperand(I16Of(Arg(1), Arg(2)) * UNIT
                          + (Arg(3) * 256 + Arg(4)) \div (65536 \div UNIT), 5)
       ELSE ReadFailed

(***************************************************************************)
(* Operators.                                                              *)
(***************************************************************************)
\* 0 | 2 | 9 | 13 | 15 | 16 | 17
\* Mutant of Reserved: a reserved byte is passed over.
Reserved_ignored ==
    /\ Running /\ Op \in {0, 2, 9, 13, 15, 16, 17}
    /\ Continue(1, Cur.x, Cur.y)
    /\ UNCHANGED <<stack, ctx_vars, bbox, sink, hist_vars>>

Reserved ==
    /\ Running /\ Op \in {0, 2, 9, 13, 15, 16, 17}
    /\ Fail("InvalidOperator")
    /\ UNCHANGED <<stack, ctx_vars, bbox, sink, hist_vars>>


\* Mutant of StemTakesWidth: width_parsed is not consulted.
StemTakesWidth_always(len, parsed) == is_odd(len)

\* A stem or mask operator takes the first operand as the width.
StemTakesWidth(len, parsed) == is_odd(len) /\ ~parsed

\* hstem, vstem, hstemhm, vstemhm
Stem ==
    /\ Running /\ Op \in {1, 3, 18, 23}
    /\ LET drop == StemTakesWidth(Len(stack), width_parsed)
           len  == IF drop THEN Len(stack) - 1 ELSE Len(stack)
       IN  /\ width_parsed' = (width_parsed \/ drop)
           /\ stems_len' = stems_len + (len \div 2)
           /\ width_drops' = width_drops + (IF drop THEN 1 ELSE 0)
    /\ width_op_seen' = TRUE
    /\ stack' = <<>>
    /\ Continue(1, Cur.x, Cur.y)
    /\ UNCHANGED <<is_first_move_to, bbox, sink>>

\* Mutant of MaskBytes: the bytes of whole groups of eight stems only.
MaskBytes_floor(n) == n \div 8

\* `(ctx.stems_len + 7) >> 3`: the bytes of a mask of n stems.
MaskBytes(n) == (n + 7) \div 8

\* hintmask, cntrmask
HintMask ==
    /\ Running /\ Op \in {19, 20}
    /\ LET drop == StemTakesWidth(Len(stack), width_parsed)
           len  == IF drop THEN Len(stack) - 1 ELSE Len(stack)
           n    == stems_len + (len \div 2)
       IN  /\ width_parsed' = (width_parsed \/ drop)
           /\ stems_len' = n
           /\ width_drops' = width_drops + (IF drop THEN 1 ELSE 0)
           /\ Continue(1 + MaskBytes(n), Cur.x, Cur.y)
    /\ width_op_seen' = TRUE
    /\ stack' = <<>>
    /\ UNCHANGED <<is_first_move_to, bbox, sink>>

\* A moveto of n operands takes one more operand, the first, as the width.
MoveTakesWidth(len, n, parsed) == len = n + 1 /\ ~parsed


\* Mutant of MoveToCalls: the close is emitted for the first moveto too.
MoveToCalls_close(first, nx, ny) == <<Close, MoveTo(nx, ny)>>

\* A moveto closes the open subpath, if any, and starts the next one.
MoveToCalls(first, nx, ny) ==
    (IF first THEN <<>> ELSE <<Close>>) \o <<MoveTo(nx, ny)>>

\* The three movetos, op taking n operands: vmoveto (4) moves the pen by
\* (0, at(i)), rmoveto (21) by (at(i), at(i + 1)), hmoveto (22) by (at(i), 0),
\* where i is the index of the first operand after the width.
MoveToOp(op, n) ==
    LET drop == MoveTakesWidth(Len(stack), n, width_parsed)
        i    == IF drop THEN 1 ELSE 0
    IN  IF ~drop /\ Len(stack) # n
        THEN /\ Fail("InvalidArgumentsStackLength")
             /\ UNCHANGED <<stack, ctx_vars, bbox, sink, hist_vars>>
        ELSE LET dx == IF op = 4 THEN 0 ELSE ArgumentsStack_at(stack, i)
                 dy == IF op = 4 THEN ArgumentsStack_at(stack, i)
                       ELSE IF op = 21 THEN ArgumentsStack_at(stack, i + 1)
                       ELSE 0
                 nx == Cur.x + dx
                 ny == Cur.y + dy
                 o  == Outcome(nx, ny, <<>>,
                               MoveToCalls(is_first_move_to, nx, ny), "")
             IN  /\ Draw(o, 1)
                 /\ width_parsed' = (width_parsed \/ drop)
                 /\ is_first_move_to' = FALSE
                 /\ width_drops' = width_drops + (IF drop THEN 1 ELSE 0)
                 /\ width_op_seen' = TRUE
                 /\ UNCHANGED stems_len

VerticalMoveTo == Running /\ Op = 4 /\ MoveToOp(4, 1)

RelativeMoveTo == Running /\ Op = 21 /\ MoveToOp(21, 2)

HorizontalMoveTo == Running /\ Op = 22 /\ MoveToOp(22, 1)

\* endchar takes whatever is on the stack as the width.
EndCharTakesWidth(len, parsed) == len # 0 /\ ~parsed

EndChar ==
    /\ Running /\ Op = 14
    /\ LET drop == EndCharTakesWidth(Len(stack), width_parsed)
       IN  /\ stack' = IF drop THEN <<>> ELSE stack
           /\ width_parsed' = (width_parsed \/ drop)
           /\ width_drops' = width_drops + (IF drop THEN 1 ELSE 0)
    /\ width_op_seen' = TRUE
    /\ is_first_move_to' = TRUE
    /\ sink' = IF is_first_move_to THEN sink ELSE Append(sink, Close)
    /\ Continue(1, Cur.x, Cur.y)
    /\ UNCHANGED <<stems_len, bbox>>

\* An operator that only draws: its outcome from the stack and the pen.
DrawingOp(o) ==
    /\ Draw(o, 1)
    /\ UNCHANGED <<ctx_vars, hist_vars>>

RelativeLineTo ==
    Running /\ Op = 5 /\ DrawingOp(relative_line_to(stack, Cur.x, Cur.y))
HorizontalLineTo ==
    Running /\ Op = 6 /\ DrawingOp(horizontal_line_to(stack, Cur.x, Cur.y))
VerticalLineTo ==
    Running /\ Op = 7 /\ DrawingOp(vertical_line_to(stack, Cur.x, Cur.y))
RelativeCurveTo ==
    Running /\ Op = 8 /\ DrawingOp(relative_curve_to(stack, Cur.x, Cur.y))
RelativeCurveLine ==
    Running /\ Op = 24 /\ DrawingOp(relative_curve_line(stack, Cur.x, Cur.y))
RelativeLineCurve ==
    Running /\ Op = 25 /\ DrawingOp(relative_line_curve(stack, Cur.x, Cur.y))
VVCurveTo ==
    Running /\ Op = 26 /\ DrawingOp(vv_curve_to(stack, Cur.x, Cur.y))
HHCurveTo ==
    Running /\ Op = 27 /\ DrawingOp(hh_curve_to(stack, Cur.x, Cur.y))
VHCurveTo ==
    Running /\ Op = 30 /\ DrawingOp(vh_curve_to(stack, Cur.x, Cur.y))
HVCurveTo ==
    Running /\ Op = 31 /\ DrawingOp(hv_curve_to(stack, Cur.x, Cur.y))

\* TWO_BYTE_OPERATOR_MARK: the flex operators.
TwoByteOperator ==
    /\ Running /\ Op = TWO_BYTE_OPERATOR_MARK
    /\ IF ~CanRead(1) THEN ReadFailed
       ELSE IF Arg(1) \notin {34, 35, 36, 37}
       THEN /\ Fail("UnsupportedOperator")
            /\ UNCHANGED <<stack, ctx_vars, bbox, sink, hist_vars>>
       ELSE /\ Draw(CASE Arg(1) = 34 -> hflex(stack, Cur.x, Cur.y)
                      [] Arg(1) = 35 -> flex(stack, Cur.x, Cur.y)
                      [] Arg(1) = 36 -> hflex1(stack, Cur.x, Cur.y)
                      [] Arg(1) = 37 -> flex1(stack, Cur.x, Cur.y), 2)
            /\ UNCHANGED <<ctx_vars, hist_vars>>

(***************************************************************************)
(* Subroutines.                                                            *)
(***************************************************************************)

\* Mutant of NestingLimitReached: the limit is tested one call too late.
NestingLimitReached_late(d) == d = STACK_LIMIT + 1

\* `if depth == STACK_LIMIT`
NestingLimitReached(d) == d = STACK_LIMIT


\* Mutant of SubroutineOrdinal: the bias of a small INDEX whatever the count.
SubroutineOrdinal_fixed(ix, v) == AsU16(AsI32(v) + 107)

\* `(stack.pop() as i32 + subroutine_bias as i32) as u16` for an INDEX of
\* len subroutines.
BiasedOrdinal(len, v) == AsU16(AsI32(v) + calc_subroutine_bias(len))

\* The ordinal a call selects: the popped operand as i32 plus the bias, as u16.
SubroutineOrdinal(ix, v) == BiasedOrdinal(DataIndex_len(ix), v)

\* callsubr / callgsubr on the INDEX ix.
CallSubroutine(ix) ==
    IF stack = <<>>
    THEN /\ Fail("InvalidArgumentsStackLength")
         /\ UNCHANGED stack
    ELSE IF NestingLimitReached(depth)
    THEN /\ Fail("NestingLimitReached")
         /\ UNCHANGED stack
    ELSE LET char_string ==
                 DataIndex_get(ix, SubroutineOrdinal(ix, ArgumentsStack_top(stack)))
         IN  /\ stack' = ArgumentsStack_pop(stack)
             /\ IF ~IsSome(char_string)
                THEN Fail("NoGlyph")
                ELSE /\ frames' =
                          Append([frames EXCEPT ![Len(frames)].off = @ + 1],
                                 [cs |-> char_string[1], off |-> 0,
                                  x |-> Cur.x, y |-> Cur.y])
                     /\ UNCHANGED <<font_vars, rect, pc, result>>

CallLocalSubroutine ==
    /\ Running /\ Op = 10
    /\ CallSubroutine(metadata.local_subrs)
    /\ UNCHANGED <<ctx_vars, bbox, sink, hist_vars>>

CallGlobalSubroutine ==
    /\ Running /\ Op = 29
    /\ CallSubroutine(metadata.global_subrs)
    /\ UNCHANGED <<ctx_vars, bbox, sink, hist_vars>>

\* Mutant of LeaveFrame: the caller goes on from its own pen.
LeaveFrame_keep_pen ==
    /\ IF depth = 0
       THEN /\ pc' = "done"
            /\ result' = "Ok"
            /\ rect' = [x_min |-> AsI16(bbox.x_min), y_min |-> AsI16(bbox.y_min),
                        x_max |-> AsI16(bbox.x_max), y_max |-> AsI16(bbox.y_max)]
            /\ UNCHANGED frames
       ELSE /\ frames' = SubSeq(frames, 1, Len(frames) - 1)
            /\ UNCHANGED <<pc, result, rect>>
    /\ UNCHANGED <<font_vars, stack, ctx_vars, bbox, sink, hist_vars>>

\* _parse_char_string returns Ok((x, y)): to the caller, which takes the pen,
\* or, at depth 0, to parse_char_string, which returns the box as a Rect.
LeaveFrame ==
    /\ IF depth = 0
       THEN /\ pc' = "done"
            /\ result' = "Ok"
            /\ rect' = [x_min |-> AsI16(bbox.x_min), y_min |-> AsI16(bbox.y_min),
                        x_max |-> AsI16(bbox.x_max), y_max |-> AsI16(bbox.y_max)]
            /\ UNCHANGED frames
       ELSE /\ frames' = [SubSeq(frames, 1, Len(frames) - 1)
                             EXCEPT ![Len(frames) - 1] =
                                 [@ EXCEPT !.x = Cur.x, !.y = Cur.y]]
            /\ UNCHANGED <<pc, result, rect>>
    /\ UNCHANGED <<font_vars, stack, ctx_vars, bbox, sink, hist_vars>>

\* Mutant of Return: the operator is passed over.
Return_ignored ==
    /\ Running /\ Op = 11
    /\ Continue(1, Cur.x, Cur.y)
    /\ UNCHANGED <<stack, ctx_vars, bbox, sink, hist_vars>>

\* operator::RETURN
Return == Running /\ Op = 11 /\ LeaveFrame

\* `while !s.at_end()` ends.
EndOfCharString == pc = "run" /\ at_end(Cur) /\ LeaveFrame

Next ==
    \/ parse_char_string
    \/ OperandByte \/ OperandPositive \/ OperandNegative \/ ShortInt
    \/ OperandFixed
    \/ Reserved
    \/ Stem \/ HintMask
    \/ VerticalMoveTo \/ RelativeMoveTo \/ HorizontalMoveTo
    \/ EndChar
    \/ RelativeLineTo \/ HorizontalLineTo \/ VerticalLineTo
    \/ RelativeCurveTo \/ RelativeCurveLine \/ RelativeLineCurve
    \/ VVCurveTo \/ HHCurveTo \/ VHCurveTo \/ HVCurveTo
    \/ TwoByteOperator
    \/ CallLocalSubroutine \/ CallGlobalSubroutine
    \/ Return \/ EndOfCharString

Spec == Init /\ [][Next]_vars

\* Every step of a render is eventually taken: the interpreter is a
\* sequential loop that nothing suspends.
FairSpec == Spec /\ WF_vars(Next)

(***************************************************************************)
(* calc_subroutine_bias on every 16-bit count.                             *)
(***************************************************************************)
\* The interpreter's variables while a function is under test.
NoRender ==
    /\ font = "empty"
    /\ metadata = [global_subrs |-> DataIndex_default,
                   local_subrs  |-> DataIndex_default,
                   char_strings |-> DataIndex_default]
    /\ glyph_id = 0
    /\ pc = "idle"
    /\ result = ""
    /\ rect = [x_min |-> 0, y_min |-> 0, x_max |-> 0, y_max |-> 0]
    /\ frames = <<>>
    /\ stack = <<>>
    /\ is_first_move_to = TRUE
    /\ width_parsed = FALSE
    /\ stems_len = 0
    /\ bbox = [x_min |-> F32_MAX, y_min |-> F32_MAX,
               x_max |-> F32_MIN, y_max |-> F32_MIN]
    /\ sink = <<>>
    /\ width_drops = 0
    /\ width_op_seen = FALSE

render_vars == <<font, metadata, glyph_id, pc, result, rect, frames, stack,
                 is_first_move_to, width_parsed, stems_len, bbox, sink,
                 width_drops, width_op_seen>>

BiasInit ==
    /\ NoRender
    /\ \E n \in 0..U16_MAX : call = [fn |-> "calc_subroutine_bias", arg |-> n]
    /\ ret = None

BiasCall ==
    /\ call.fn = "calc_subroutine_bias"
    /\ ret = None
    /\ ret' = Some(calc_subroutine_bias(call.arg))
    /\ UNCHANGED <<call, render_vars>>

BiasNext == BiasCall

BiasSpec == BiasInit /\ [][BiasNext]_vars

(***************************************************************************)
(* parse_index, skip_index and DataIndex::get on byte strings.             *)
(***************************************************************************)
IndexAlphabet == {0, 1, 2, 3, 4, 5, 255}

GeneratedIndexes == UNION { [1..n -> IndexAlphabet] : n \in 0..MaxIndexLen }

\* INDEXes with items, with every offSize, and with offsets that are zero,
\* reversed, or past the payload or the stream.
HandIndexes ==
    { <<0, 2, 1, 1, 3, 4, 10, 11, 12>>,
      <<0, 2, 1, 1, 3, 4, 10, 11, 12, 99>>,
      <<0, 3, 1, 1, 1, 2, 4, 10, 11, 12>>,
      <<0, 2, 1, 3, 1, 3, 10, 11>>,
      <<0, 2, 1, 1, 5, 3, 10, 11>>,
      <<0, 2, 1, 0, 2, 3, 10, 11>>,
      <<0, 2, 1, 1, 0, 3, 10, 11>>,
      <<0, 2, 1, 1, 2, 0, 10, 11>>,
      <<0, 2, 1, 1, 3, 9, 10, 11>>,
      <<0, 1, 2, 0, 1, 0, 3, 7, 8>>,
      <<0, 1, 3, 0, 0, 1, 0, 0, 2, 7>>,
      <<0, 1, 4, 0, 0, 0, 1, 0, 0, 0, 3, 7, 8>>,
      <<0, 1, 0, 1, 2, 7>>,
      <<0, 1, 5, 1, 2, 7, 0, 0, 0, 0, 0, 0>>,
      <<0, 1, 6, 1, 2, 7, 0, 0, 0, 0, 0, 0, 0, 0>>,
      <<255, 254, 1>>,
      <<255, 254, 0>>,
      <<255, 255, 1, 1, 2, 7>>,
      <<0, 0, 1, 1, 2, 7>> }

\* The offsets the Stream is at when the INDEX is read.
StartOffsets == {0, 1}
\* The ordinals asked of an INDEX.
GetOrdinals == {0, 1, 2, 3, U16_MAX - 1, U16_MAX}

IndexInit ==
    /\ NoRender
    /\ \E f \in {"parse_index", "skip_index"},
          d \in GeneratedIndexes \cup HandIndexes,
          o \in StartOffsets :
          call = [fn |-> f, data |-> d, off |-> o]
    /\ ret = None

ParseIndexCall ==
    /\ call.fn = "parse_index"
    /\ ret = None
    /\ ret' = Some(parse_index(call.data, call.off))
    /\ UNCHANGED <<call, render_vars>>

SkipIndexCall ==
    /\ call.fn = "skip_index"
    /\ ret = None
    /\ ret' = Some(skip_index(call.data, call.off))
    /\ UNCHANGED <<call, render_vars>>

\* get(index) on an INDEX that parse_index returned.
DataIndexGetCall ==
    /\ call.fn = "parse_index"
    /\ ret # None
    /\ ret[1].ok
    /\ \E i \in GetOrdinals :
          /\ call' = [fn |-> "DataIndex_get", data |-> call.data,
                      off |-> call.off, ix |-> ret[1].val, index |-> i]
          /\ ret' = Some(DataIndex_get(ret[1].val, i))
    /\ UNCHANGED render_vars

IndexNext == ParseIndexCall \/ SkipIndexCall \/ DataIndexGetCall

IndexSpec == IndexInit /\ [][IndexNext]_vars

(***************************************************************************)
(* parse_metadata on the bytes of a CFF table.  call holds the function's  *)
(* locals and the statement it is at (stage); ret is its result.           *)
(***************************************************************************)
Metadata_default ==
    [global_subrs |-> DataIndex_default,
     local_subrs  |-> DataIndex_default,
     char_strings |-> DataIndex_default]

\* A well-formed table: header, Name INDEX (offset 4), Top DICT INDEX (10),
\* String INDEX (20), Global Subrs INDEX (22), Private DICT (28), Local Subrs
\* INDEX (30) and CharStrings INDEX (36) of two glyphs.
BaseTable ==
    <<1, 0, 4, 1>>
    \o <<0, 1, 1, 1, 2, 65>>
    \o <<0, 1, 1, 1, 6, P(36), 17, P(2), P(28), 18>>
    \o <<0, 0>>
    \o <<0, 1, 1, 1, 2, 11>>
    \o <<P(2), 19>>
    \o <<0, 1, 1, 1, 2, 11>>
    \o <<0, 2, 1, 1, 2, 3, 14, 14>>

\* The bytes put in the place of one byte of BaseTable.
TableAlphabet ==
    {0, 1, 2, 3, 5, 12, 17, 18, 19, 28, 29, 30, 31, 138, 139, 140, 247, 251, 255}

\* Tables without a Private DICT, with a header longer than 4 bytes, with a
\* float and a two-byte operator in the Top DICT, and with no room for the
\* header.
HandTables ==
    { <<1, 0, 4, 1>> \o <<0, 0>>
        \o <<0, 1, 1, 1, 3, P(17), 17>> \o <<0, 0>> \o <<0, 0>>
        \o <<0, 1, 1, 1, 2, 14>>,
      <<1, 0, 6, 1, 0, 0>> \o <<0, 0>>
        \o <<0, 1, 1, 1, 3, P(19), 17>> \o <<0, 0>> \o <<0, 0>>
        \o <<0, 1, 1, 1, 2, 14>>,
      <<1, 0, 4, 1>> \o <<0, 0>>
        \o <<0, 1, 1, 1, 8, P(1), 12, 7, 30, 34, 175, 17>> \o <<0, 0>> \o <<0, 0>>
        \o <<0, 1, 1, 1, 2, 14>>,
      <<1, 0, 4, 1>> \o <<0, 0>>
        \o <<0, 1, 1, 1, 3, P(17), 17>> \o <<0, 0>> \o <<0, 0>>
        \o <<0, 0>>,
      <<2, 0>>, <<2, 0, 4>>, <<2, 0, 4, 1>>, <<1, 0>> }

MetaTables ==
    { [BaseTable EXCEPT ![i] = b] : i \in 1..Len(BaseTable), b \in TableAlphabet }
    \cup { SubSeq(BaseTable, 1, n) : n \in 0..Len(BaseTable) }
    \cup HandTables

MetaInit ==
    /\ NoRender
    /\ \E d \in MetaTables :
          call = [fn |-> "parse_metadata", data |-> d, stage |-> "header",
                  off |-> 0, char_strings_offset |-> 0,
                  private_dict_range |-> None, subroutines_offset |-> None,
                  metadata |-> Metadata_default]
    /\ ret = None

AtStage(st) == call.fn = "parse_metadata" /\ call.stage = st /\ ret = None

\* return Err(e)
MetaFail(e) ==
    /\ call' = [call EXCEPT !.stage = "done"]
    /\ ret' = Some(Err(e))
    /\ UNCHANGED render_vars

\* The header: major, minor, header_size and the absolute offset size.
ParseHeader_unchecked ==
    /\ AtStage("header")
    /\ LET major == Stream_read(call.data, 0, 1)
           header_size == Stream_read(call.data, 2, 1)
       IN  IF ~IsSome(major) \/ ~IsSome(header_size)
           THEN MetaFail("ReadOutOfBounds")
           ELSE /\ call' = [call EXCEPT
                               !.stage = "name_index",
                               !.off = IF header_size[1] > 4
                                       THEN header_size[1] ELSE 4]
                /\ UNCHANGED <<ret, render_vars>>

ParseHeader ==
    /\ AtStage("header")
    /\ LET major == Stream_read(call.data, 0, 1)
           header_size == Stream_read(call.data, 2, 1)
       IN  IF ~IsSome(major) \/ ~IsSome(header_size)
           THEN MetaFail("ReadOutOfBounds")
           ELSE IF major[1] # 1
           THEN MetaFail("UnsupportedTableVersion")
           ELSE /\ call' = [call EXCEPT
                               !.stage = "name_index",
                               !.off = IF header_size[1] > 4
                                       THEN header_size[1] ELSE 4]
                /\ UNCHANGED <<ret, render_vars>>

\* The statement after `let r = ...?`: the error of r is returned, or the
\* function goes on at the stage next with the locals c.
Proceed(r, next, c) ==
    IF ~r.ok THEN MetaFail(r.err)
    ELSE /\ call' = [c EXCEPT !.stage = next]
         /\ UNCHANGED <<ret, render_vars>>

\* skip_index(&mut s)? on the Name INDEX and on the String INDEX.
Skipped(r, next) == Proceed(r, next, [call EXCEPT !.off = r.off])

SkipNameIndex ==
    /\ AtStage("name_index")
    /\ Skipped(skip_index(call.data, call.off), "top_dict")

\* The statements after parse_top_dict(&mut s) returned r.
TopDictRead(r) ==
    IF r.ok /\ r.val.char_strings_offset = 0
    THEN MetaFail("NoCharStrings")
    ELSE Proceed(r, "private_dict",
                 [call EXCEPT
                     !.off = r.off,
                     !.char_strings_offset = r.val.char_strings_offset,
                     !.private_dict_range = r.val.private_dict_range])

ParseTopDict ==
    /\ AtStage("top_dict")
    /\ TopDictRead(parse_top_dict(call.data, call.off))

\* parse_private_dict(data.try_slice(range)?)?
PrivateDictRead(slice) ==
    IF ~IsSome(slice) THEN MetaFail("ReadOutOfBounds")
    ELSE Proceed(parse_private_dict(slice[1]), "string_index",
                 [call EXCEPT
                     !.subroutines_offset = parse_private_dict(slice[1]).val])

ParsePrivateDict ==
    /\ AtStage("private_dict")
    /\ IF IsSome(call.private_dict_range)
       THEN PrivateDictRead(try_slice_usize(call.data,
                                            call.private_dict_range[1].start,
                                            call.private_dict_range[1].end))
       ELSE /\ call' = [call EXCEPT !.stage = "string_index"]
            /\ UNCHANGED <<ret, render_vars>>

SkipStringIndex ==
    /\ AtStage("string_index")
    /\ Skipped(skip_index(call.data, call.off), "global_subrs")

\* metadata.global_subrs = r?
GlobalSubrsRead(r) ==
    Proceed(r, "local_subrs",
            [call EXCEPT !.off = r.off, !.metadata.global_subrs = r.val])

ParseGlobalSubrs ==
    /\ AtStage("global_subrs")
    /\ GlobalSubrsRead(parse_index(call.data, call.off))

\* The table offset of the Local Subrs INDEX, when there is one.
LocalSubrsStart ==
    IF IsSome(call.private_dict_range) /\ IsSome(call.subroutines_offset)
    THEN usize_checked_add(call.private_dict_range[1].start,
                           call.subroutines_offset[1])
    ELSE None

\* metadata.local_subrs = r?
LocalSubrsRead(r) ==
    Proceed(r, "char_strings", [call EXCEPT !.metadata.local_subrs = r.val])

\* data.try_slice(start..data.len())?, then parse_index on the slice.
LocalSubrsSlice(data) ==
    IF ~IsSome(data) THEN MetaFail("ReadOutOfBounds")
    ELSE LocalSubrsRead(parse_index(data[1], 0))

ParseLocalSubrs ==
    /\ AtStage("local_subrs")
    /\ IF IsSome(LocalSubrsStart)
       THEN LocalSubrsSlice(try_slice_usize(call.data, LocalSubrsStart[1],
                                            Len(call.data)))
       ELSE /\ call' = [call EXCEPT !.stage = "char_strings"]
            /\ UNCHANGED <<ret, render_vars>>

\* metadata.char_strings = r?; Ok(metadata)
CharStringsRead(r) ==
    IF ~r.ok THEN MetaFail(r.err)
    ELSE /\ call' = [call EXCEPT !.stage = "done",
                                 !.metadata.char_strings = r.val]
         /\ ret' = Some(OkAt([call.metadata EXCEPT !.char_strings = r.val], 0))
         /\ UNCHANGED render_vars

\* Stream::new_at(data, char_strings_offset) and parse_index.
ParseCharStrings ==
    /\ AtStage("char_strings")
    /\ CharStringsRead(IF call.char_strings_offset < 0
                       THEN Err("ReadOutOfBounds")
                       ELSE parse_index(call.data, call.char_strings_offset))

MetaNext ==
    \/ ParseHeader
    \/ SkipNameIndex
    \/ ParseTopDict
    \/ ParsePrivateDict
    \/ SkipStringIndex
    \/ ParseGlobalSubrs
    \/ ParseLocalSubrs
    \/ ParseCharStrings

MetaSpec == MetaInit /\ [][MetaNext]_vars

(***************************************************************************)
(* The two number decoders on the same bytes: parse_number of a DICT, and  *)
(* the operand branches of the interpreter on a CharString that is the     *)
(* bytes of one number.                                                    *)
(***************************************************************************)
\* The encoding of v in -32768..32767 by the shortest rule.
Encode(v) ==
    IF v \in -107..107 THEN <<v + 139>>
    ELSE IF v \in 108..1131
    THEN <<247 + (v - 108) \div 256, (v - 108) % 256>>
    ELSE IF v \in -1131..-108
    THEN <<251 + (-v - 108) \div 256, (-v - 108) % 256>>
    ELSE <<28, ((v + U16_MAX + 1) % (U16_MAX + 1)) \div 256,
               ((v + U16_MAX + 1) % (U16_MAX + 1)) % 256>>

CodecValues == -1131..I16_MAX

NumberInit ==
    /\ \E v \in CodecValues :
          /\ call = [fn |-> "number", v |-> v, bytes |-> Encode(v)]
          /\ metadata = [global_subrs |-> DataIndex_default,
                         local_subrs  |-> DataIndex_default,
                         char_strings |-> MkIndex(<<Encode(v)>>)]
    /\ font = "empty"
    /\ glyph_id = 0
    /\ ret = None
    /\ pc = "start"
    /\ result = ""
    /\ rect = [x_min |-> 0, y_min |-> 0, x_max |-> 0, y_max |-> 0]
    /\ frames = <<>>
    /\ stack = <<>>
    /\ is_first_move_to = TRUE
    /\ width_parsed = FALSE
    /\ stems_len = 0
    /\ bbox = [x_min |-> F32_MAX, y_min |-> F32_MAX,
               x_max |-> F32_MIN, y_max |-> F32_MIN]
    /\ sink = <<>>
    /\ width_drops = 0
    /\ width_op_seen = FALSE

\* parse_number(b0, s) as parse_operands calls it: b0 is read, then the rest.
ParseNumberCall ==
    /\ call.fn = "number"
    /\ ret = None
    /\ ret' = Some(parse_number(call.bytes[1], call.bytes, 1))
    /\ UNCHANGED <<call, render_vars>>

NumberNext ==
    \/ parse_char_string
    \/ OperandByte \/ OperandPositive \/ OperandNegative \/ ShortInt
    \/ EndOfCharString
    \/ ParseNumberCall

NumberSpec == NumberInit /\ [][NumberNext]_vars

(***************************************************************************)
(* The claims.                                                             *)
(***************************************************************************)
\* A callsubr or callgsubr is about to execute with an operand to pop.
CallStep == Running /\ Op \in {10, 29} /\ stack # <<>>

\* C1: the subroutine call depth never exceeds 10.  A call executed at depth
\* 10 fails with NestingLimitReached and enters no callee; a call at depth
\* d < 10 that goes on runs the callee at depth d + 1, local and global calls
\* alike; NestingLimitReached is only ever raised with 10 nested calls
\* entered (11 frames).
C1_NestingBound ==
    /\ [](pc \in {"run", "done"} => depth <= STACK_LIMIT)
    /\ [](result = "NestingLimitReached" => depth = STACK_LIMIT)
    /\ [][CallStep =>
            /\ depth = STACK_LIMIT =>
                  result' = "NestingLimitReached" /\ frames' = frames
            /\ depth < STACK_LIMIT =>
                  /\ result' # "NestingLimitReached"
                  /\ pc' = "run" => Len(frames') = Len(frames) + 1]_vars

\* A local subroutine that calls itself: the 11th call failed, with the
\* glyph and 10 nested calls of the subroutine on the call stack.
C1_Witness ==
    /\ result = "NestingLimitReached"
    /\ Len(frames) = STACK_LIMIT + 1
    /\ \A i \in 2..Len(frames) : frames[i].cs = LocalSubrs[1]

\* The bytes that follow each operand lead byte.
OperandLen(op) ==
    IF op = 28 THEN 2
    ELSE IF op = 255 THEN 4
    ELSE IF op >= 247 THEN 1
    ELSE 0

\* An operand (28, 32..254 or 255) is about to be pushed.
PushStep == Running /\ (Op = 28 \/ Op >= 32) /\ CanRead(OperandLen(Op))

\* C2: the operand stack never holds more than 48 values, in any frame; a
\* push of any operand encoding while it holds 48 fails the render with
\* ArgumentsStackLimitReached and leaves the stack as it was.
C2_StackBound ==
    /\ [](Len(stack) <= MAX_ARGUMENTS_STACK_LEN)
    /\ [][PushStep /\ Len(stack) = MAX_ARGUMENTS_STACK_LEN =>
            /\ pc' = "done"
            /\ result' = "ArgumentsStackLimitReached"
            /\ stack' = stack]_vars
    /\ [][PushStep /\ Len(stack) < MAX_ARGUMENTS_STACK_LEN =>
            pc' = "run" /\ Len(stack') = Len(stack) + 1]_vars

\* The 49th push failed inside a subroutine, the stack filled across frames.
C2_Witness ==
    /\ result = "ArgumentsStackLimitReached"
    /\ Len(stack) = MAX_ARGUMENTS_STACK_LEN
    /\ Len(frames) > 2

\* C3: every render returns, with Ok or with an error, whatever the
\* CharStrings and subroutines are, recursive ones included.
C3_Terminates == <>(pc = "done")

\* A render of mutually recursive subroutines (local 1 and global 0) that
\* returned.
C3_Witness ==
    /\ pc = "done"
    /\ Len(frames) = STACK_LIMIT + 1
    /\ frames[2].cs = LocalSubrs[2]
    /\ frames[3].cs = GlobalSubrs[1]

\* The points of a builder call.
PointsOf(c) ==
    IF c.op = "curve_to" THEN {<<c.x1, c.y1>>, <<c.x2, c.y2>>, <<c.x, c.y>>}
    ELSE IF c.op = "close" THEN {}
    ELSE {<<c.x, c.y>>}

\* The points of the calls of a sequence.
PointsOfAll(calls) == UNION { PointsOf(calls[i]) : i \in 1..Len(calls) }

\* C4: a render that returns Ok after emitting a point returns a box with
\* x_min <= x_max and y_min <= y_max that contains every emitted point.
C4_BoxContainsPoints ==
    (pc = "done" /\ result = "Ok" /\ PointsOfAll(sink) # {}) =>
        /\ rect.x_min <= rect.x_max
        /\ rect.y_min <= rect.y_max
        /\ \A p \in PointsOfAll(sink) :
              /\ rect.x_min * UNIT <= p[1] /\ p[1] <= rect.x_max * UNIT
              /\ rect.y_min * UNIT <= p[2] /\ p[2] <= rect.y_max * UNIT

\* C5: a render of a glyph id that is no ordinal of the CharStrings INDEX
\* (id >= count, or id = 0xFFFF) returns NoGlyph, without any sink call.
C5_NoGlyph ==
    (pc \in {"run", "done"}
        /\ (glyph_id >= DataIndex_len(metadata.char_strings)
               \/ glyph_id = U16_MAX)) =>
        pc = "done" /\ result = "NoGlyph" /\ sink = <<>> /\ frames = <<>>

\* The render of glyph 1 of a one-glyph font ended.
C5_Witness ==
    /\ pc = "done"
    /\ glyph_id = 1
    /\ DataIndex_len(metadata.char_strings) = 1
    /\ result = "NoGlyph"

\* C6: calc_subroutine_bias(n) is 107 for n < 1240, 1131 for
\* 1240 <= n < 33900 and 32768 for n >= 33900, over all 16-bit n.
C6_Bias ==
    (call.fn = "calc_subroutine_bias" /\ ret # None) =>
        LET n == call.arg
            b == ret[1]
        IN  /\ n \in 0..1239 => b = 107
            /\ n \in 1240..33899 => b = 1131
            /\ n \in 33900..65535 => b = 32768
            /\ b \in {107, 1131, 32768}

\* The bias of the largest count that still gives 1131.
C6_Witness ==
    call = [fn |-> "calc_subroutine_bias", arg |-> 33899] /\ ret = Some(1131)

\* The bias the format prescribes for n subroutines.
BiasOf(n) == IF n < 1240 THEN 107 ELSE IF n < 33900 THEN 1131 ELSE 32768

\* C7: callsubr pops the top operand v and executes the local subroutine
\* with ordinal v + bias(number of local subroutines), callgsubr the global
\* one with the bias of the number of global subroutines (v truncated to an
\* integer); with fewer than 1240 subroutines the operand -107 selects
\* subroutine 0; an empty stack fails with InvalidArgumentsStackLength.
C7_CallSelects ==
    [][(Running /\ Op \in {10, 29}) =>
         LET items == IF Op = 10 THEN Fonts[font].local ELSE Fonts[font].global
         IN  IF stack = <<>>
             THEN pc' = "done" /\ result' = "InvalidArgumentsStackLength"
             ELSE LET v == stack[Len(stack)]
                      ord == TruncDiv(v, UNIT) + BiasOf(Len(items))
                      valid == ord >= 0 /\ ord < Len(items)
                  IN  /\ (valid /\ depth < STACK_LIMIT) =>
                            /\ pc' = "run"
                            /\ Len(frames') = Len(frames) + 1
                            /\ frames'[Len(frames')].cs = items[ord + 1]
                            /\ frames'[Len(frames')].off = 0
                            /\ stack' = SubSeq(stack, 1, Len(stack) - 1)
                      /\ ~valid => pc' = "done" /\ frames' = frames
                      /\ (v = -107 * UNIT /\ Len(items) \in 1..1239
                             /\ depth < STACK_LIMIT) =>
                            frames'[Len(frames')].cs = items[1]]_vars

\* In the font with 1240 local and 5 global subroutines: -107 callgsubr
\* entered global 0 (bias 107), whose -106 callsubr entered local 1025
\* (bias 1131).
C7_Witness ==
    /\ font = "big"
    /\ Len(frames) = 3
    /\ frames[2].cs = GlobalSubrs[1]
    /\ frames[3].cs = BigLocalSubrs[1026]
    /\ stack = <<>>

\* C8: once the first width-bearing operator has executed, no later operator
\* of the render takes a leading operand as the width.
C8_NoWidthAfterFirstOperator ==
    [][width_op_seen => width_drops' = width_drops]_vars

\* C9: at most one operator of a render drops operands as the width:
\* width_parsed starts false and only changes to true, and a drop happens
\* only in a step that finds width_parsed false and sets it; subroutines
\* share the flag.
C9_WidthOnce ==
    /\ [](width_drops <= 1)
    /\ [](pc = "start" => ~width_parsed /\ width_drops = 0)
    /\ [][width_parsed => width_parsed']_vars
    /\ [][width_drops' # width_drops =>
            /\ ~width_parsed
            /\ width_parsed'
            /\ width_drops' = width_drops + 1]_vars

\* Local subroutine 4 dropped the width; the caller's `1 hstem`, with an odd
\* stack, then dropped nothing and counted no stem.
C9_Witness ==
    /\ font = "small"
    /\ metadata.char_strings = MkIndex(<< <<P(-103), 10, P(1), 1, 14>> >>)
    /\ pc = "done"
    /\ result = "Ok"
    /\ width_drops = 1
    /\ stems_len = 1

IsMoveOrClose(c) == c.op \in {"move_to", "close"}
\* The move_to and close calls of the sink, in order.
MovesAndCloses == SelectSeq(sink, IsMoveOrClose)
\* The calls a step added to the sink.
Emitted == SubSeq(sink', Len(sink) + 1, Len(sink'))

\* C10: move_to and close alternate in the sink, beginning with move_to; a
\* close comes only from a moveto operator (right before its move_to) or
\* from endchar, with a subpath open; is_first_move_to is false exactly when
\* the last of them is a move_to; return and the end of the bytes emit
\* nothing.
C10_MoveCloseAlternate ==
    /\ [](\A i \in 1..Len(MovesAndCloses) :
             MovesAndCloses[i].op = IF i % 2 = 1 THEN "move_to" ELSE "close")
    /\ [](pc \in {"run", "done"} =>
             (~is_first_move_to <=>
                 /\ MovesAndCloses # <<>>
                 /\ MovesAndCloses[Len(MovesAndCloses)].op = "move_to"))
    /\ [][(\E i \in 1..Len(Emitted) : Emitted[i].op = "close") =>
            /\ Running
            /\ ~is_first_move_to
            /\ \/ Op = 14 /\ Emitted = <<Close>>
               \/ /\ Op \in {4, 21, 22}
                  /\ Len(Emitted) = 2
                  /\ Emitted[1] = Close
                  /\ Emitted[2].op = "move_to"]_vars
    /\ [][(pc = "run" /\ (at_end(Cur) \/ Op = 11)) => sink' = sink]_vars

\* A render that closed two subpaths (by a moveto and by endchar), opened a
\* third and ended, inside a subroutine's return and the end of the glyph's
\* bytes, without a close.
C10_Witness ==
    /\ pc = "done"
    /\ result = "Ok"
    /\ ~is_first_move_to
    /\ Len(MovesAndCloses) = 5
    /\ sink[Len(sink)].op = "line_to"

\* The glyph CharString of the render.
Glyph == frames[1].cs
\* The render has returned Ok.
ReturnedOk == pc = "done" /\ result = "Ok"

\* C11: a render that returns without having emitted a point (a CharString
\* of endchar alone, or an empty one, returns Ok) has made no sink call and
\* returns the initial extremes, as the cast to i16 leaves them: x_min and
\* y_min the largest, x_max and y_max the smallest value, so that
\* x_min > x_max and y_min > y_max.
C11_EmptyBox ==
    /\ (ReturnedOk /\ PointsOfAll(sink) = {}) =>
          /\ sink = <<>>
          /\ rect = [x_min |-> I16_MAX, y_min |-> I16_MAX,
                     x_max |-> I16_MIN, y_max |-> I16_MIN]
          /\ rect.x_min > rect.x_max
          /\ rect.y_min > rect.y_max
    /\ (pc = "done" /\ frames # <<>> /\ Glyph \in {<<>>, <<14>>}) =>
          result = "Ok" /\ sink = <<>>

\* The render of a CharString of endchar alone has returned.
C11_Witness ==
    /\ ReturnedOk
    /\ Glyph = <<14>>
    /\ rect.x_min > rect.x_max

StoredOffset(ix, k) ==
    parse_be(SubSeq(ix.offsets.data, k * ix.offsets.offset_size + 1,
                    (k + 1) * ix.offsets.offset_size))
\* The number of items of ix: one less than the offsets stored.
StoredCount(ix) ==
    LET n == Len(ix.offsets.data) \div ix.offsets.offset_size
    IN  IF n = 0 THEN 0 ELSE n - 1

\* C14: when get(i) returns Some(s), i is below the count and s is exactly
\* payload[offsets[i] - 1 .. offsets[i + 1] - 1]; get(i) is None when
\* i >= count, when i = 0xFFFF, when either stored offset is 0 and when the
\* range is reversed or ends past the payload.
C14_GetWithinPayload ==
    (call.fn = "DataIndex_get") =>
        LET ix == call.ix
            i  == call.index
            r  == ret[1]
        IN  /\ (i >= StoredCount(ix) \/ i = U16_MAX) => r = None
            /\ i < StoredCount(ix) =>
                  LET a == StoredOffset(ix, i)
                      b == StoredOffset(ix, i + 1)
                  IN  /\ r # None =>
                            /\ a >= 1 /\ a <= b /\ b - 1 <= Len(ix.data)
                            /\ r[1] = SubSeq(ix.data, a, b - 1)
                      /\ (a = 0 \/ b = 0) => r = None
                      /\ (a > b \/ b - 1 > Len(ix.data)) => r = None

\* get(0) returned the first item, bytes 10 11, of a two-item INDEX.
C14_Witness ==
    /\ call.fn = "DataIndex_get"
    /\ call.index = 0
    /\ StoredCount(call.ix) = 2
    /\ ret = Some(Some(<<10, 11>>))

\* The 16-bit count at the Stream's offset, when two bytes are left.
CountAt(data, off) ==
    IF off + 2 <= Len(data) THEN data[off + 1] * 256 + data[off + 2] ELSE -1

\* C15: parse_index on a count of 0 or 0xFFFF succeeds, leaves the Stream 2
\* bytes further whatever follows the count, and yields an INDEX of length 0
\* whose get(i) is None for every i.
C15_EmptyIndex ==
    /\ (call.fn = "parse_index" /\ ret # None
           /\ CountAt(call.data, call.off) \in {0, U16_MAX}) =>
          /\ ret[1].ok
          /\ ret[1].off = call.off + 2
          /\ DataIndex_len(ret[1].val) = 0
          /\ ret[1].val.data = <<>>
          /\ ret[1].val.offsets.data = <<>>
    /\ (call.fn = "DataIndex_get"
           /\ CountAt(call.data, call.off) \in {0, U16_MAX}) =>
          ret = Some(None)

\* The count 0xFFFF followed by a byte that is no offSize: get(0) on the
\* INDEX returned was None.
C15_Witness ==
    /\ call.fn = "DataIndex_get"
    /\ call.index = 0
    /\ call.off = 0
    /\ Len(call.data) = 3
    /\ CountAt(call.data, 0) = U16_MAX
    /\ call.data[3] = 5
    /\ ret = Some(None)

\* C16: with a count in 1..0xFFFE, an offSize byte outside 1..4 makes
\* parse_index and skip_index fail with InvalidOffsetSize, and an offSize in
\* 1..4 never gives that error.
C16_InvalidOffsetSize ==
    (call.fn \in {"parse_index", "skip_index"} /\ ret # None
        /\ CountAt(call.data, call.off) \in 1..(U16_MAX - 1)
        /\ call.off + 3 <= Len(call.data)) =>
        LET size == call.data[call.off + 3]
        IN  /\ size \notin 1..4 =>
                  ~ret[1].ok /\ ret[1].err = "InvalidOffsetSize"
            /\ size \in 1..4 => ret[1].err # "InvalidOffsetSize"

\* skip_index failed on the offSize 5.
C16_Witness ==
    /\ call.fn = "skip_index"
    /\ ret # None
    /\ CountAt(call.data, call.off) = 1
    /\ call.data[call.off + 3] = 5
    /\ ret[1].err = "InvalidOffsetSize"

\* parse_metadata returned Ok.
MetadataOk == call.fn = "parse_metadata" /\ ret # None /\ ret[1].ok
\* The number of offsets stored in ix.
StoredOffsets(ix) == Len(ix.offsets.data) \div ix.offsets.offset_size
\* The stored offsets of ix never decrease.
Monotone(ix) ==
    \A k \in 0..(StoredOffsets(ix) - 2) :
        StoredOffset(ix, k) <= StoredOffset(ix, k + 1)
\* The last stored offset of ix points into, or just past, the bytes that
\* follow the offset array.
LastOffsetWithin(ix) ==
    StoredOffsets(ix) > 0 =>
        /\ StoredOffset(ix, StoredOffsets(ix) - 1) >= 1
        /\ StoredOffset(ix, StoredOffsets(ix) - 1) - 1 = Len(ix.data)

\* C13: when parse_metadata returns metadata, each of global_subrs,
\* local_subrs and char_strings has a count of at most 0xFFFE, stored offsets
\* that never decrease and a last offset within the slice it was parsed from.
C13_IndexesWellFormed ==
    MetadataOk =>
        \A ix \in {ret[1].val.global_subrs, ret[1].val.local_subrs,
                   ret[1].val.char_strings} :
            /\ StoredCount(ix) <= U16_MAX - 1
            /\ Monotone(ix)
            /\ LastOffsetWithin(ix)

\* C17: parse_metadata never returns Ok with a char_strings INDEX of length
\* 0; when it reads the count 0 at the CharStrings offset, the failure is
\* NoCharStrings.
C17_NoCharStrings ==
    (call.fn = "parse_metadata" /\ ret # None) =>
        /\ ret[1].ok => DataIndex_len(ret[1].val.char_strings) > 0
        /\ (ret[1].ok \/ ret[1].err = "NoCharStrings")
              \/ call.char_strings_offset <= 0
              \/ CountAt(call.data, call.char_strings_offset) # 0

\* The first statement of parse_metadata is about to run on a table whose
\* header can be read and whose major version is not 1.
BadMajor ==
    AtStage("header") /\ Len(call.data) >= 3 /\ call.data[1] # 1

\* C18 as amended: when the table holds the three bytes that the header
\* reads need and the major version byte is not 1, parse_metadata fails with
\* UnsupportedTableVersion, and it does so in its first step, before any
\* INDEX or DICT is parsed.
C18_UnsupportedVersion ==
    /\ []((call.fn = "parse_metadata" /\ ret # None
             /\ Len(call.data) >= 3 /\ call.data[1] # 1) =>
            ret = Some(Err("UnsupportedTableVersion")))
    /\ [][BadMajor =>
            /\ ret' = Some(Err("UnsupportedTableVersion"))
            /\ call'.stage = "done"]_vars

\* A whole table with the major version 2 was refused.
C18_Witness ==
    /\ call.fn = "parse_metadata"
    /\ Len(call.data) = Len(BaseTable)
    /\ call.data[1] = 2
    /\ call.stage = "done"
    /\ ret = Some(Err("UnsupportedTableVersion"))

\* C18 as stated: whenever the major version byte is not 1, parse_metadata
\* fails with UnsupportedTableVersion.
C18_AnyMajor ==
    (call.fn = "parse_metadata" /\ ret # None
        /\ Len(call.data) >= 1 /\ call.data[1] # 1) =>
        ret = Some(Err("UnsupportedTableVersion"))

\* C19: a v in -1131..32767, encoded by the shortest rule, is decoded to v by
\* parse_number, which reads all the bytes, and by the operand branches of the
\* interpreter, which push v.
C19_RoundTrip ==
    (call.fn = "number") =>
        /\ ret # None =>
              /\ ret[1].ok
              /\ ret[1].val = Integer(call.v)
              /\ ret[1].off = Len(call.bytes)
        /\ (pc = "run" /\ Cur.off > 0) =>
              Cur.off = Len(call.bytes) /\ stack = <<call.v * UNIT>>
        /\ pc = "done" => result = "Ok" /\ stack = <<call.v * UNIT>>

\* -1131, the two bytes 254 255, was decoded by both.
C19_Witness ==
    /\ call.fn = "number"
    /\ call.v = -1131
    /\ call.bytes = <<254, 255>>
    /\ pc = "done"
    /\ stack = <<-1131 * UNIT>>
    /\ ret = Some(OkAt(Integer(-1131), 2))

\* The byte to be read as an operator is reserved.
AtReserved == Running /\ Op \in {0, 2, 9, 13, 15, 16, 17}
\* The bytes to be read are the escape 12 and a byte that is no flex.
AtUnsupported ==
    Running /\ Op = TWO_BYTE_OPERATOR_MARK /\ CanRead(1)
        /\ Arg(1) \notin {34, 35, 36, 37}

\* C20: a reserved byte read as an operator ends the render with
\* InvalidOperator, and the escape 12 before a byte other than 34..37 ends it
\* with UnsupportedOperator; neither step calls the sink, and nothing is
\* delivered after the render ended.
C20_BadOperatorStops ==
    /\ [][AtReserved =>
            pc' = "done" /\ result' = "InvalidOperator" /\ sink' = sink]_vars
    /\ [][AtUnsupported =>
            pc' = "done" /\ result' = "UnsupportedOperator" /\ sink' = sink]_vars
    /\ [][pc = "done" => pc' = "done" /\ sink' = sink /\ result' = result]_vars

\* The escape 38 in local subroutine 6 ended a render that had delivered
\* three commands.
C20_Witness ==
    /\ pc = "done"
    /\ result = "UnsupportedOperator"
    /\ Len(frames) = 2
    /\ Cur.cs = LocalSubrs[7]
    /\ Cur.off = 2
    /\ Len(sink) = 3

(***************************************************************************)
(* The operand stack after an operator.                                    *)
(***************************************************************************)
\* The step does not end the render with an error.
Succeeds == result' \in {"", "Ok"}

\* The escape byte followed by one of hflex, flex, hflex1, flex1.
AtFlex ==
    Running /\ Op = TWO_BYTE_OPERATOR_MARK /\ CanRead(1)
            /\ Arg(1) \in {34, 35, 36, 37}

\* The stem, mask, moveto, line and curve operators.
ClearingOperators ==
    {1, 3, 18, 23, 19, 20, 4, 21, 22, 5, 6, 7, 8, 24, 25, 26, 27, 30, 31}

AtClearing == (Running /\ Op \in ClearingOperators) \/ AtFlex
AtPush == Running /\ (Op = 28 \/ Op >= 32)
AtCall == Running /\ Op \in {10, 29}
\* operator::RETURN, or the bytes of the CharString are used up.
AtReturn == (Running /\ Op = 11) \/ (pc = "run" /\ at_end(Cur))

\* C23: after a stem, moveto, line, curve, flex or hintmask/cntrmask
\* operator that executes successfully the operand stack is empty, and the
\* only successful steps that leave operands on the stack are the operand
\* pushes (one more operand), callsubr/callgsubr (the stack less the popped
\* index) and return or the end of the bytes (the stack as it was).
C23_StackCleared ==
    [][ /\ (AtClearing /\ Succeeds => stack' = <<>>)
        /\ (pc = "run" /\ Succeeds /\ stack' # <<>> =>
               \/ AtPush /\ Len(stack') = Len(stack) + 1
                         /\ SubSeq(stack', 1, Len(stack)) = stack
               \/ AtCall /\ stack' = PopN(stack, 1)
               \/ AtReturn /\ stack' = stack) ]_vars

\* C24: endchar executed with operands on the stack clears the stack and
\* raises no error, whether the width was parsed before or not.
C24_EndCharClears ==
    [][ Running /\ Op = 14 /\ stack # <<>> =>
            stack' = <<>> /\ result' = "" ]_vars

(***************************************************************************)
(* Stems and masks.                                                        *)
(***************************************************************************)
\* The operands a stem or mask operator counts as stems: all of them, or
\* all but the first when their number is odd and the width is not parsed.
Residual ==
    IF Len(stack) % 2 = 1 /\ ~width_parsed THEN Len(stack) - 1 ELSE Len(stack)

\* The least number of bytes that hold n bits.
BytesFor(n) == CHOOSE m \in 0..n : 8 * m >= n /\ 8 * m < n + 8

AtStem == Running /\ Op \in {1, 3, 18, 23}
AtMask == Running /\ Op \in {19, 20}

\* C25: hintmask and cntrmask add floor(n/2) stems for their n residual
\* operands and then move the cursor past the operator and exactly
\* ceil(stems_len / 8) mask bytes, emitting nothing; stems_len starts at 0,
\* grows by floor(n/2) at every stem operator and changes in no other step
\* (calls and returns included), so it is the total of the render; with one
\* stem declared and no operand the mask operator skips exactly one byte.
C25_MaskSkipsStems ==
    /\ [](pc = "start" => stems_len = 0)
    /\ [][ /\ (AtMask =>
                 /\ stems_len' = stems_len + Residual \div 2
                 /\ result' = "" /\ Len(frames') = Len(frames)
                 /\ frames'[Len(frames)].off = Cur.off + 1 + BytesFor(stems_len')
                 /\ frames'[Len(frames)].cs = Cur.cs
                 /\ sink' = sink
                 /\ (stems_len = 1 /\ stack = <<>> =>
                        frames'[Len(frames)].off = Cur.off + 2))
           /\ (AtStem => stems_len' = stems_len + Residual \div 2
                         /\ sink' = sink)
           /\ (pc = "run" /\ ~AtMask /\ ~AtStem => stems_len' = stems_len)
       ]_vars

\* A hintmask has executed in local subroutine 7 after seven stems of the
\* caller: eight stems, one mask byte skipped, the cursor at the return.
C25_Witness ==
    /\ pc = "run" /\ depth = 1
    /\ Cur.cs = LocalSubrs[8] /\ Cur.off = 4
    /\ stems_len = 8
    /\ stack = <<>> /\ sink = <<>>

(***************************************************************************)
(* hlineto and vlineto.                                                    *)
(***************************************************************************)
\* The point before the k-th call a step adds to the sink: the pen for the
\* first call, the point of the call before for the others.
PointBefore(k) ==
    IF k = 1 THEN [x |-> Cur.x, y |-> Cur.y]
    ELSE [x |-> sink'[Len(sink) + k - 1].x, y |-> sink'[Len(sink) + k - 1].y]

\* The step emits one line_to per operand; the k-th adds the k-th operand to
\* x and nothing to y when `k is odd` = first_is_x, to y and nothing to x
\* otherwise.  The pen ends on the last point, the stack is cleared, and
\* the render goes on.
AlternatingLines(first_is_x) ==
    /\ result' = ""
    /\ stack' = <<>>
    /\ Len(sink') = Len(sink) + Len(stack)
    /\ SubSeq(sink', 1, Len(sink)) = sink
    /\ \A k \in 1..Len(stack) :
          LET on_x == (k % 2 = 1) = first_is_x
          IN  sink'[Len(sink) + k] =
                  LineTo(PointBefore(k).x + (IF on_x THEN stack[k] ELSE 0),
                         PointBefore(k).y + (IF on_x THEN 0 ELSE stack[k]))
    /\ frames'[Len(frames)].x = PointBefore(Len(stack) + 1).x
    /\ frames'[Len(frames)].y = PointBefore(Len(stack) + 1).y

\* C26: hlineto with n operands emits exactly n line_to calls, the k-th
\* adding the k-th operand to x only (k odd) or to y only (k even); vlineto
\* is the same with the axes swapped; the pen afterwards is the last point
\* emitted, and with no operand nothing is emitted and no error is raised.
C26_AlternatingLineTo ==
    [][ /\ (Running /\ Op = 6 => AlternatingLines(TRUE))
        /\ (Running /\ Op = 7 => AlternatingLines(FALSE)) ]_vars

\* vlineto has drawn six lines from (3, 4) with the operands 11, 22, ..., 66.
C26_Witness ==
    /\ pc = "run" /\ Cur.off \in 1..Len(Cur.cs) /\ Cur.cs[Cur.off] = 7
    /\ Len(sink) = 7
    /\ sink[2] = LineTo(3 * UNIT, 15 * UNIT)
    /\ sink[3] = LineTo(25 * UNIT, 15 * UNIT)
    /\ sink[7] = LineTo(135 * UNIT, 103 * UNIT)
    /\ Cur.x = 135 * UNIT /\ Cur.y = 103 * UNIT
    /\ stack = <<>>

(***************************************************************************)
(* vhcurveto and hvcurveto.                                                *)
(***************************************************************************)
\* The j-th curve of an alternating run over the operands st from the point
\* p: its four operands are st[4j-3..4j]; a curve that starts vertical
\* keeps x for its first control point and ends with x2 + d, one that
\* starts horizontal keeps y and ends with y2 + d; `extra` goes to the other
\* coordinate of the end point.
AlternatingCurve(st, j, p, vertical, extra) ==
    LET a  == st[4 * j - 3]
        b  == st[4 * j - 2]
        c  == st[4 * j - 1]
        d  == st[4 * j]
        x1 == IF vertical THEN p.x ELSE p.x + a
        y1 == IF vertical THEN p.y + a ELSE p.y
    IN  CurveTo(x1, y1, x1 + b, y1 + c,
                IF vertical THEN x1 + b + d ELSE x1 + b + extra,
                IF vertical THEN y1 + c + extra ELSE y1 + c + d)

\* The step succeeds exactly for 4n and 4n + 1 operands (n >= 1), emits n
\* curves whose first tangents alternate from first_vertical on, applies
\* the odd operand to the last end point only, and clears the stack.
AlternatingCurves(first_vertical) ==
    LET L == Len(stack)
        n == L \div 4
    IN  IF L >= 4 /\ L % 4 \in {0, 1}
        THEN /\ result' = ""
             /\ stack' = <<>>
             /\ Len(sink') = Len(sink) + n
             /\ SubSeq(sink', 1, Len(sink)) = sink
             /\ \A j \in 1..n :
                   sink'[Len(sink) + j] =
                       AlternatingCurve(stack, j, PointBefore(j),
                                        (j % 2 = 1) = first_vertical,
                                        IF j = n /\ L % 4 = 1 THEN stack[L]
                                        ELSE 0)
             /\ frames'[Len(frames)].x = PointBefore(n + 1).x
             /\ frames'[Len(frames)].y = PointBefore(n + 1).y
        ELSE result' = "InvalidArgumentsStackLength"

\* C27: vhcurveto and hvcurveto with L operands succeed exactly when L >= 4
\* and L mod 4 is 0 or 1; then they emit floor(L/4) curve_to calls whose
\* starting tangents alternate (vhcurveto starts vertical, hvcurveto
\* horizontal), the extra operand of L mod 4 = 1 goes to the off-axis
\* coordinate of the last end point only, and the stack is empty afterwards;
\* for every other L they fail with InvalidArgumentsStackLength.
C27_AlternatingCurveTo ==
    [][ /\ (Running /\ Op = 30 => AlternatingCurves(TRUE))
        /\ (Running /\ Op = 31 => AlternatingCurves(FALSE)) ]_vars

\* vhcurveto has drawn two curves from (0, 0) with the nine operands
\* -27, -22, -17, -12, -7, -2, 3, 8, 13: the second starts horizontal and
\* takes 13 on the x of its end point.
C27_Witness ==
    /\ pc = "run" /\ Cur.off \in 1..Len(Cur.cs) /\ Cur.cs[Cur.off] = 30
    /\ Len(sink) = 2
    /\ sink[1] = CurveTo(0, -27 * UNIT, -22 * UNIT, -44 * UNIT,
                         -34 * UNIT, -44 * UNIT)
    /\ sink[2] = CurveTo(-41 * UNIT, -44 * UNIT, -43 * UNIT, -41 * UNIT,
                         -30 * UNIT, -33 * UNIT)
    /\ Cur.x = -30 * UNIT /\ Cur.y = -33 * UNIT
    /\ stack = <<>>

(***************************************************************************)
(* The flex operators.                                                     *)
(***************************************************************************)
\* The operands hflex (34), flex (35), hflex1 (36) and flex1 (37) require.
FlexOperands(op2) ==
    CASE op2 = 34 -> 7 [] op2 = 35 -> 13 [] op2 = 36 -> 9 [] op2 = 37 -> 11

\* The first control point of the second curve, as a displacement from the
\* end of the first curve: hflex and hflex1 move along x only.
SecondCurveStart(op2) ==
    CASE op2 = 34 -> [x |-> stack[5], y |-> 0]
      [] op2 = 35 -> [x |-> stack[7], y |-> stack[8]]
      [] op2 = 36 -> [x |-> stack[6], y |-> 0]
      [] op2 = 37 -> [x |-> stack[7], y |-> stack[8]]

\* flex1: the displacement of the fifth point from the pen.
Flex1Dx == stack[1] + stack[3] + stack[5] + stack[7] + stack[9]
Flex1Dy == stack[2] + stack[4] + stack[6] + stack[8] + stack[10]

FlexStep(op2) ==
    IF Len(stack) # FlexOperands(op2)
    THEN result' = "InvalidArgumentsStackLength" /\ sink' = sink
    ELSE LET c1 == sink'[Len(sink) + 1]
             c2 == sink'[Len(sink) + 2]
         IN  /\ result' = ""
             /\ Len(sink') = Len(sink) + 2
             /\ SubSeq(sink', 1, Len(sink)) = sink
             /\ c1.op = "curve_to" /\ c2.op = "curve_to"
             /\ c2.x1 = c1.x + SecondCurveStart(op2).x
             /\ c2.y1 = c1.y + SecondCurveStart(op2).y
             /\ frames'[Len(frames)].x = c2.x
             /\ frames'[Len(frames)].y = c2.y
             /\ (op2 \in {34, 36} => c2.y = Cur.y)
             /\ (op2 = 37 =>
                   IF f32_abs(Flex1Dx) > f32_abs(Flex1Dy)
                   THEN c2.x = Cur.x + Flex1Dx + stack[11] /\ c2.y = Cur.y
                   ELSE c2.x = Cur.x /\ c2.y = Cur.y + Flex1Dy + stack[11])

\* C28: hflex, flex, hflex1 and flex1 require exactly 7, 13, 9 and 11
\* operands; with any other number they fail with
\* InvalidArgumentsStackLength and emit nothing, and with that number they
\* emit exactly two curve_to calls, the second continuing from the end of
\* the first.  hflex and hflex1 leave the pen's y as it was, and flex1
\* applies its last operand to x (keeping the starting y) when
\* |dx5 - x| > |dy5 - y| and to y (keeping the starting x) otherwise, ties
\* included.
C28_Flex ==
    [][ AtFlex => FlexStep(Arg(1)) ]_vars

\* flex1 has run from (3, 4) with ten operands 1 and the last operand 9: the
\* fifth point is (8, 9), a tie, and 9 went to y while x is back at 3.
C28_Witness ==
    /\ pc = "run" /\ Cur.off \in 2..Len(Cur.cs)
    /\ Cur.cs[Cur.off - 1] = TWO_BYTE_OPERATOR_MARK /\ Cur.cs[Cur.off] = 37
    /\ Len(sink) = 3
    /\ sink[3] = CurveTo(7 * UNIT, 8 * UNIT, 8 * UNIT, 9 * UNIT,
                         3 * UNIT, 18 * UNIT)
    /\ Cur.x = 3 * UNIT /\ Cur.y = 18 * UNIT
    /\ stack = <<>>

(***************************************************************************)
(* Subroutine calls and returns.                                           *)
(***************************************************************************)
\* The step enters a subroutine.
EntersSubroutine == pc = "run" /\ Len(frames') = Len(frames) + 1
\* The step returns from a subroutine to its caller.
LeavesSubroutine == pc = "run" /\ Len(frames') = Len(frames) - 1

\* `5 6 callsubr(8) vlineto endchar`, local subroutine 8 being
\* `rmoveto 1 2 3`, and what it draws.
SharingGlyph == <<P(5), P(6), P(-99), 10, 7, 14>>
SharingOutline ==
    << MoveTo(5 * UNIT, 6 * UNIT), LineTo(5 * UNIT, 7 * UNIT),
       LineTo(7 * UNIT, 7 * UNIT), LineTo(7 * UNIT, 10 * UNIT), Close >>

\* C29: a subroutine call shares the interpreter state with its caller.
\* The callee starts with the caller's stack less the call index, at the
\* caller's pen and with the caller's flags; at the return the caller goes
\* on with the stack the callee left, at the callee's final pen, and with
\* width_parsed, stems_len and the open-subpath flag as the callee left
\* them.  So `5 6 callsubr vlineto endchar` with the subroutine
\* `rmoveto 1 2 3` moves to (5, 6), draws three lines and closes.
C29_SharedState ==
    /\ [][ /\ (EntersSubroutine =>
                 /\ AtCall
                 /\ stack' = SubSeq(stack, 1, Len(stack) - 1)
                 /\ frames'[Len(frames')].x = Cur.x
                 /\ frames'[Len(frames')].y = Cur.y
                 /\ frames'[Len(frames')].off = 0
                 /\ UNCHANGED <<is_first_move_to, width_parsed, stems_len,
                                sink, bbox>>)
           /\ (LeavesSubroutine =>
                 /\ AtReturn
                 /\ stack' = stack
                 /\ frames'[Len(frames')].x = Cur.x
                 /\ frames'[Len(frames')].y = Cur.y
                 /\ UNCHANGED <<is_first_move_to, width_parsed, stems_len,
                                sink, bbox>>) ]_vars
    /\ [](pc = "done" /\ font = "small" /\ glyph_id = 0
            /\ metadata.char_strings = MkIndex(<<SharingGlyph>>)
          => result = "Ok" /\ sink = SharingOutline)

\* The render of `5 6 callsubr vlineto endchar` has returned.
C29_Witness ==
    /\ pc = "done" /\ result = "Ok"
    /\ font = "small" /\ glyph_id = 0
    /\ metadata.char_strings = MkIndex(<<SharingGlyph>>)
    /\ sink = SharingOutline
    /\ is_first_move_to /\ stack = <<>>

\* What leaving a CharString does, by return or at the end of its bytes:
\* at depth 0 the render ends with Ok; in a subroutine the frame is dropped
\* with whatever bytes it had left and the caller's cursor stays where the
\* call left it.  Nothing is emitted, the stack and the flags are kept.
LeavesCharString ==
    /\ IF depth = 0
       THEN pc' = "done" /\ result' = "Ok"
       ELSE /\ pc' = "run" /\ result' = ""
            /\ Len(frames') = Len(frames) - 1
            /\ \A i \in 1..Len(frames') :
                  /\ frames'[i].cs = frames[i].cs
                  /\ frames'[i].off = frames[i].off
    /\ UNCHANGED <<stack, is_first_move_to, width_parsed, stems_len, sink,
                   bbox>>

\* The cursor of every caller is just behind its call operator.
CallersAfterCall ==
    \A i \in 1..(Len(frames) - 1) :
        /\ frames[i].off \in 1..Len(frames[i].cs)
        /\ frames[i].cs[frames[i].off] \in {10, 29}

\* `0 0 hmoveto callsubr(2) endchar`, local subroutine 2 being
\* `10 vlineto return endchar`.
ReturnGlyph == <<P(0), P(0), 22, P(-105), 10, 14>>

\* C30: return ends only the CharString that executes it: the bytes after
\* it are never executed, the caller resumes at the byte following its call
\* operator, and return emits nothing and changes neither the stack nor the
\* flags; a subroutine whose bytes end without return leaves in the same
\* way, and a return at depth 0 ends the render with Ok, after which no
\* step is taken.
C30_Return ==
    /\ [](pc = "run" => CallersAfterCall)
    /\ [][ /\ (Running /\ Op = 11 => LeavesCharString)
           /\ (pc = "run" /\ at_end(Cur) => LeavesCharString)
           /\ pc # "done" ]_vars
    /\ [](pc = "done" /\ font = "small" /\ glyph_id = 0
            /\ metadata.char_strings = MkIndex(<<ReturnGlyph>>)
          => /\ result = "Ok"
             /\ sink = <<MoveTo(0, 0), LineTo(0, 10 * UNIT), Close>>)

\* Local subroutine 2 has returned with its endchar byte unread: the glyph
\* is at its own endchar with the subpath still open.
C30_Witness ==
    /\ pc = "run" /\ depth = 0
    /\ Cur.cs = ReturnGlyph /\ Cur.off = 5
    /\ font = "small"
    /\ sink = <<MoveTo(0, 0), LineTo(0, 10 * UNIT)>>
    /\ ~is_first_move_to /\ stack = <<>>

(***************************************************************************)
(* The hmtx table: tables/hmtx.rs.  A LazyArray16 is the slice it was read *)
(* from and the size of its items, [data, size]; get returns the bytes of  *)
(* the item, which the caller parses.                                      *)
(***************************************************************************)
\* The glyphs and the metrics a font of the model declares, at most.
MaxGlyphs == 4

\* raw::hmtx::HorizontalMetrics::SIZE and the size of an i16
HorizontalMetrics_SIZE == 4
I16_SIZE == 2

\* LazyArray16::len: `(data.len() / T::SIZE) as u16`
LazyArray16_len(a) == AsU16(Len(a.data) \div a.size)

\* LazyArray16::get
LazyArray16_get(a, index) ==
    IF index < LazyArray16_len(a)
    THEN Some(SubSeq(a.data, index * a.size + 1, index * a.size + a.size))
    ELSE None

\* LazyArray16::last
LazyArray16_last(a) ==
    IF LazyArray16_len(a) # 0
    THEN LazyArray16_get(a, LazyArray16_len(a) - 1)
    ELSE None

\* s.read_array16::<T>(count) at off, T of `size` bytes: count * size bytes
\* as a LazyArray16, or None when the Stream has fewer.
Stream_read_array16(data, off, count, size) ==
    IF IsSome(Stream_read_bytes(data, off, count * size))
    THEN Some([data |-> Stream_read_bytes(data, off, count * size)[1],
               size |-> size])
    ELSE None

HorizontalMetrics_advance_width(m) == m[1] * 256 + m[2]
HorizontalMetrics_lsb(m) == I16Of(m[3], m[4])

\* The bearings of Table::parse: read only when there are fewer metrics
\* than glyphs, and None when the read fails.
BearingsOf(data, number_of_hmetrics, number_of_glyphs) ==
    IF number_of_hmetrics < number_of_glyphs
    THEN Stream_read_array16(data, number_of_hmetrics * HorizontalMetrics_SIZE,
                             number_of_glyphs - number_of_hmetrics, I16_SIZE)
    ELSE None

\* Table::parse: Some([metrics, bearings]) or None.
Table_parse(data, number_of_hmetrics, number_of_glyphs) ==
    IF ~IsSome(Stream_read_array16(data, 0, number_of_hmetrics,
                                   HorizontalMetrics_SIZE))
    THEN None
    ELSE Some([metrics  |-> Stream_read_array16(data, 0, number_of_hmetrics,
                                                HorizontalMetrics_SIZE)[1],
               bearings |-> BearingsOf(data, number_of_hmetrics,
                                       number_of_glyphs)])

\* Mutant of Table_advance: no record, no advance.
Table_advance_strict(t, id) ==
    IF IsSome(LazyArray16_get(t.metrics, id))
    THEN Some(HorizontalMetrics_advance_width(
                  LazyArray16_get(t.metrics, id)[1]))
    ELSE None

\* Table::advance
Table_advance(t, id) ==
    IF IsSome(LazyArray16_get(t.metrics, id))
    THEN Some(HorizontalMetrics_advance_width(
                  LazyArray16_get(t.metrics, id)[1]))
    ELSE IF IsSome(LazyArray16_last(t.metrics))
    THEN Some(HorizontalMetrics_advance_width(LazyArray16_last(t.metrics)[1]))
    ELSE None

\* `bearings.get(id.0 - number_of_hmetrics)`, the i16 parsed.
BearingAt(bearings, index) ==
    IF IsSome(LazyArray16_get(bearings, index))
    THEN Some(I16Of(LazyArray16_get(bearings, index)[1][1],
                    LazyArray16_get(bearings, index)[1][2]))
    ELSE None

\* Mutant of Table_side_bearing: the bearings are indexed by the glyph id.
Table_side_bearing_unshifted(t, id) ==
    IF IsSome(LazyArray16_get(t.metrics, id))
    THEN Some(HorizontalMetrics_lsb(LazyArray16_get(t.metrics, id)[1]))
    ELSE IF IsSome(t.bearings)
    THEN IF id < LazyArray16_len(t.metrics) THEN None
         ELSE BearingAt(t.bearings[1], id)
    ELSE None

\* Table::side_bearing
Table_side_bearing(t, id) ==
    IF IsSome(LazyArray16_get(t.metrics, id))
    THEN Some(HorizontalMetrics_lsb(LazyArray16_get(t.metrics, id)[1]))
    ELSE IF IsSome(t.bearings)
    THEN IF id < LazyArray16_len(t.metrics) THEN None
         ELSE BearingAt(t.bearings[1], id - LazyArray16_len(t.metrics))
    ELSE None

\* The tables of the model: every prefix of two byte strings that hold
\* MaxGlyphs + 1 metrics and as many bearings, with advances above 255 and
\* bearings of both signs.
HmtxBytes ==
    { [i \in 1..(6 * (MaxGlyphs + 1)) |-> (i * 37) % 256],
      [i \in 1..(6 * (MaxGlyphs + 1)) |-> (200 + i * 101) % 256] }
HmtxTables == { SubSeq(b, 1, n) : b \in HmtxBytes, n \in 0..(6 * (MaxGlyphs + 1)) }

\* NonZeroU16 counts, and the glyph ids asked for.
HmtxCounts == 1..MaxGlyphs \cup {U16_MAX}
HmtxGlyphIds == 0..(MaxGlyphs + 1) \cup {U16_MAX}

\* call is [fn |-> "hmtx", data, number_of_hmetrics, number_of_glyphs,
\* table: None before Table::parse, then Some(its result), query: None or
\* <<method, glyph id>>]; ret is the result of the last call.
HmtxInit ==
    /\ NoRender
    /\ \E d \in HmtxTables, nh \in HmtxCounts, ng \in HmtxCounts :
          call = [fn |-> "hmtx", data |-> d, number_of_hmetrics |-> nh,
                  number_of_glyphs |-> ng, table |-> None, query |-> None]
    /\ ret = None

TableParseCall ==
    /\ call.fn = "hmtx" /\ call.table = None
    /\ call' = [call EXCEPT !.table =
                   Some(Table_parse(call.data, call.number_of_hmetrics,
                                    call.number_of_glyphs))]
    /\ ret' = Some(Table_parse(call.data, call.number_of_hmetrics,
                               call.number_of_glyphs))
    /\ UNCHANGED render_vars

\* Table::parse returned Some(table).
HmtxParsed ==
    call.fn = "hmtx" /\ IsSome(call.table) /\ IsSome(call.table[1])

AdvanceCall ==
    /\ HmtxParsed
    /\ \E g \in HmtxGlyphIds :
          /\ call' = [call EXCEPT !.query = <<"advance", g>>]
          /\ ret' = Some(Table_advance(call.table[1][1], g))
    /\ UNCHANGED render_vars

SideBearingCall ==
    /\ HmtxParsed
    /\ \E g \in HmtxGlyphIds :
          /\ call' = [call EXCEPT !.query = <<"side_bearing", g>>]
          /\ ret' = Some(Table_side_bearing(call.table[1][1], g))
    /\ UNCHANGED render_vars

HmtxNext == TableParseCall \/ AdvanceCall \/ SideBearingCall

HmtxSpec == HmtxInit /\ [][HmtxNext]_vars

(***************************************************************************)
(* Table::advance and Table::side_bearing against the bytes of the table.  *)
(***************************************************************************)
\* The advance width and the lsb of metrics record k (from 0) of the table.
AdvanceOfRecord(data, k) == data[4 * k + 1] * 256 + data[4 * k + 2]
LsbOfRecord(data, k) == I16Of(data[4 * k + 3], data[4 * k + 4])

\* The bearing k (from 0) that follows nh metrics records, when the table
\* holds its two bytes.
HasBearing(data, nh, k) == 4 * nh + 2 * k + 2 <= Len(data)
BearingOfEntry(data, nh, k) ==
    I16Of(data[4 * nh + 2 * k + 1], data[4 * nh + 2 * k + 2])

\* A method of the parsed table was called.
HmtxAsked(method) ==
    /\ call.fn = "hmtx" /\ IsSome(call.table) /\ IsSome(call.table[1])
    /\ call.query # None /\ call.query[1] = method

\* C21: after a successful parse, advance(g) returns the advance width of
\* record g when g < number_of_hmetrics and that of the last record for
\* every other g; it is never None.
C21_Advance ==
    HmtxAsked("advance") =>
        /\ ret # Some(None)
        /\ ret = Some(Some(AdvanceOfRecord(call.data,
                     IF call.query[2] < call.number_of_hmetrics
                     THEN call.query[2]
                     ELSE call.number_of_hmetrics - 1)))

\* advance was asked for glyph 3 of a table of two metrics: the advance of
\* record 1.
C21_Witness ==
    /\ HmtxAsked("advance")
    /\ call.query[2] = 3 /\ call.number_of_hmetrics = 2
    /\ call.number_of_glyphs = 4
    /\ ret = Some(Some(AdvanceOfRecord(call.data, 1)))
    /\ AdvanceOfRecord(call.data, 1) # AdvanceOfRecord(call.data, 0)

\* C22 as stated: side_bearing(g) returns the lsb of record g when
\* g < number_of_hmetrics, the entry g - number_of_hmetrics of the bearings
\* that follow the metrics when number_of_hmetrics <= g < number_of_glyphs,
\* and None otherwise (so None for every g >= number_of_hmetrics when
\* number_of_hmetrics >= number_of_glyphs, whatever bytes follow).
C22_SideBearing ==
    HmtxAsked("side_bearing") =>
        LET g  == call.query[2]
            nh == call.number_of_hmetrics
            ng == call.number_of_glyphs
        IN  IF g < nh
            THEN ret = Some(Some(LsbOfRecord(call.data, g)))
            ELSE IF g < ng
            THEN /\ HasBearing(call.data, nh, g - nh)
                 /\ ret = Some(Some(BearingOfEntry(call.data, nh, g - nh)))
            ELSE ret = Some(None)

\* C22, amended: the bearings are there only when the table holds all
\* number_of_glyphs - number_of_hmetrics of them; a shorter table parses
\* without bearings and gives None for every g >= number_of_hmetrics.
C22_SideBearingWhole ==
    HmtxAsked("side_bearing") =>
        LET g  == call.query[2]
            nh == call.number_of_hmetrics
            ng == call.number_of_glyphs
        IN  IF g < nh
            THEN ret = Some(Some(LsbOfRecord(call.data, g)))
            ELSE IF g < ng /\ Len(call.data) >= 4 * nh + 2 * (ng - nh)
            THEN ret = Some(Some(BearingOfEntry(call.data, nh, g - nh)))
            ELSE ret = Some(None)

\* side_bearing was asked for glyph 2 of a table of one metrics record and
\* three glyphs that holds both bearings: the second bearing, a negative
\* number.
C22_Witness ==
    /\ HmtxAsked("side_bearing")
    /\ call.query[2] = 2 /\ call.number_of_hmetrics = 1
    /\ call.number_of_glyphs = 3
    /\ Len(call.data) >= 8
    /\ ret = Some(Some(BearingOfEntry(call.data, 1, 1)))
    /\ BearingOfEntry(call.data, 1, 1) < 0

(***************************************************************************)
(* The ordinal of a subroutine call, for every integer operand and for     *)
(* counts around the thresholds of the bias.                               *)
(***************************************************************************)
\* The numbers of subroutines tried.
SubrCounts ==
    {0, 1, 2, 1239, 1240, 1241, 32767, 32768, 33899, 33900, 33901, 65534}

\* The integers an operand encoding can push, and operands with a fraction
\* (from the 16.16 encoding) next to the values where the biased index
\* changes sign or reaches the count.
IntegerOperands == { n * UNIT : n \in I16_MIN..I16_MAX }
LookupOperands ==
    { n * UNIT : n \in {I16_MIN, I16_MIN + 1, -31638, -31637, -1132, -1131,
                        -1130, -108, -107, -106, -1, 0, 1, 108, 109, 1131,
                        1132, 32766, I16_MAX} }
    \cup { I16_MIN * UNIT + 1, -108 * UNIT + 1, -107 * UNIT - 1,
           -107 * UNIT - 128, -1131 * UNIT - 255, 128, I16_MAX * UNIT + 255 }

\* An INDEX of len empty items with offSize 1: every stored offset is 1.
EmptyItems(len) ==
    IF len = 0 THEN DataIndex_default
    ELSE [data |-> <<>>,
          offsets |-> [data |-> [i \in 1..(len + 1) |-> 1], offset_size |-> 1]]

\* call is [fn |-> "biased_index", len, operand], with ret the ordinal, or
\* [fn |-> "lookup", len, operand], with ret what DataIndex::get returns for
\* the ordinal in an INDEX of len items.
OrdinalInit ==
    /\ NoRender
    /\ \/ \E c \in SubrCounts, v \in IntegerOperands :
             call = [fn |-> "biased_index", len |-> c, operand |-> v]
       \/ \E c \in SubrCounts, v \in LookupOperands :
             call = [fn |-> "lookup", len |-> c, operand |-> v]
    /\ ret = None

BiasedIndexCall ==
    /\ call.fn = "biased_index" /\ ret = None
    /\ ret' = Some(BiasedOrdinal(call.len, call.operand))
    /\ UNCHANGED <<call, render_vars>>

LookupCall ==
    /\ call.fn = "lookup" /\ ret = None
    /\ ret' = Some(DataIndex_get(EmptyItems(call.len),
                                 SubroutineOrdinal(EmptyItems(call.len),
                                                   call.operand)))
    /\ UNCHANGED <<call, render_vars>>

OrdinalNext == BiasedIndexCall \/ LookupCall

OrdinalSpec == OrdinalInit /\ [][OrdinalNext]_vars

\* The biased index of a call: the operand truncated to an integer plus the
\* bias of the count.
BiasedIndex(len, v) == TruncDiv(v, UNIT) + BiasOf(len)

SkipIndexReturned == call.fn = "skip_index" /\ ret # None

\* C32: skip_index is parse_index without the view: on the same stream at
\* the same position the two both fail, or both succeed and leave the
\* Stream at the same offset.
C32_SkipIsParse ==
    SkipIndexReturned =>
        /\ ret[1].ok = parse_index(call.data, call.off).ok
        /\ ret[1].ok => ret[1].off = parse_index(call.data, call.off).off

\* What holds of the two: skip_index fails whenever parse_index does for the
\* count, the offSize or the offsets array, and when both succeed they
\* leave the Stream at the same offset.
C32_SkipWhereParseSucceeds ==
    SkipIndexReturned /\ parse_index(call.data, call.off).ok =>
        /\ ret[1].ok
        /\ ret[1].off = parse_index(call.data, call.off).off

\* skip_index succeeds on an INDEX with items whose payload parse_index
\* reads whole.
C32_Witness ==
    /\ SkipIndexReturned /\ ret[1].ok
    /\ call.data = <<0, 2, 1, 1, 3, 4, 10, 11, 12>> /\ call.off = 0
    /\ ret[1].off = 9


(***************************************************************************)
(* The length of an INDEX with many items: parse_index on a stream built   *)
(* from a count and an offSize, then len(), get(i) and the iterator's      *)
(* next() on the INDEX it returns.                                         *)
(***************************************************************************)
\* The counts and the offset sizes tried; (count + 1) * offSize is above
\* 65535 from 16383 items on with offSize 4, from 21845 with 3 and from
\* 32767 with 2.
ItemCounts == {1, 2, 255, 16383, 21844, 21845, 32766, 32767, 32768, 65534}
OffsetSizes == 1..4

\* The stream of an INDEX of c items with offSize w: item 0 is the byte 7
\* and the other items are empty, so the offsets are 1, 2, 2, ..., 2.
LargeIndex(c, w) ==
    <<c \div 256, c % 256, w>>
    \o [i \in 1..((c + 1) * w) |->
           IF i % w # 0 THEN 0 ELSE IF i = w THEN 1 ELSE 2]
    \o <<7>>

\* DataIndexIter::next with the iterator at offset.
DataIndexIter_next(ix, offset) ==
    IF offset = DataIndex_len(ix) THEN None ELSE Some(DataIndex_get(ix, offset))

\* The ordinals asked of an INDEX of c items.
AskedOrdinals(c) == {0, 1, c - 1, c} \cap 0..c

\* call is [fn, count, offset_size, index]; ret is [parsed, val]: whether
\* parse_index succeeded, and what fn returned on its INDEX.
CountInit ==
    /\ NoRender
    /\ \E c \in ItemCounts, w \in OffsetSizes :
          \/ call = [fn |-> "len", count |-> c, offset_size |-> w, index |-> 0]
          \/ \E i \in AskedOrdinals(c), f \in {"get", "next"} :
                call = [fn |-> f, count |-> c, offset_size |-> w, index |-> i]
    /\ ret = None

\* What a method returns on the INDEX res.val, when parse_index returned it.
Answer(res, val) == [parsed |-> res.ok, val |-> IF res.ok THEN val ELSE None]

IndexLenCall ==
    /\ call.fn = "len" /\ ret = None
    /\ LET res == parse_index(LargeIndex(call.count, call.offset_size), 0)
       IN  ret' = Some(Answer(res, DataIndex_len(res.val)))
    /\ UNCHANGED <<call, render_vars>>

IndexGetCall ==
    /\ call.fn = "get" /\ ret = None
    /\ LET res == parse_index(LargeIndex(call.count, call.offset_size), 0)
       IN  ret' = Some(Answer(res, DataIndex_get(res.val, call.index)))
    /\ UNCHANGED <<call, render_vars>>

IndexNextCall ==
    /\ call.fn = "next" /\ ret = None
    /\ LET res == parse_index(LargeIndex(call.count, call.offset_size), 0)
       IN  ret' = Some(Answer(res, DataIndexIter_next(res.val, call.index)))
    /\ UNCHANGED <<call, render_vars>>

CountNext == IndexLenCall \/ IndexGetCall \/ IndexNextCall

CountSpec == CountInit /\ [][CountNext]_vars

\* The item with ordinal i of the INDEX that LargeIndex encodes.
ItemOf(i) == IF i = 0 THEN <<7>> ELSE <<>>

\* What the claim says of a parsed INDEX of call.count items.
CountKept ==
    /\ call.fn = "len" => ret[1].val = call.count
    /\ call.fn = "get" /\ call.index < call.count =>
          ret[1].val = Some(ItemOf(call.index))
    /\ call.fn = "next" =>
          ret[1].val = IF call.index < call.count
                       THEN Some(Some(ItemOf(call.index))) ELSE None

\* C33: an INDEX parsed from a count c in 1..0xFFFE and an offSize w in 1..4
\* with a non-zero last offset has len() = c, its iteration visits the
\* ordinals 0..c-1 and stops at c, and get(i) is Some for every i < c with
\* valid offsets, also when (c + 1) * w exceeds 65535.
C33_CountKept == ret # None /\ ret[1].parsed => CountKept

\* The part that holds: the same with an offsets array of at most 65535
\* bytes.
C33_CountKeptSmall ==
    ret # None /\ (call.count + 1) * call.offset_size <= U16_MAX =>
        ret[1].parsed /\ CountKept

\* The largest INDEX whose offsets array stays below 65536 bytes: 65534
\* items with offSize 1 have len() = 65534.
C33_Witness ==
    /\ call.fn = "len" /\ call.count = 65534 /\ call.offset_size = 1
    /\ ret = Some([parsed |-> TRUE, val |-> 65534])


(***************************************************************************)
(* A DictionaryParser on DICTs with long operand runs, and parse_number    *)
(* and skip_number on every lead byte.                                     *)
(***************************************************************************)
\* The operand with ordinal i of a run: the integer i, every third one in
\* the three-byte form; at the position `bad` a real number with the
\* reserved nibble 13, which skip_number passes and parse_number rejects.
RunOperand(i, bad) ==
    IF i = bad THEN <<30, 223>>
    ELSE IF i % 3 = 0 THEN <<28, 0, i>>
    ELSE <<P(i)>>

OperatorBytes(op) == IF op >= 1200 THEN <<12, op - 1200>> ELSE <<op>>

\* The bytes of the operands i..n of a run, then its operator.
RECURSIVE RunBytes(_, _)
RunBytes(r, i) ==
    IF i > r.n THEN OperatorBytes(r.op)
    ELSE RunOperand(i, r.bad) \o RunBytes(r, i + 1)

RECURSIVE DictBytes(_)
DictBytes(runs) ==
    IF runs = <<>> THEN <<>>
    ELSE RunBytes(runs[1], 1) \o DictBytes(Tail(runs))

\* A run is [n: its number of operands, bad: the position of the malformed
\* real number or 0, op: its operator].
RunLengths == {0, 1, 2, 47, 48, 49, 50}
DictRuns ==
    { [n |-> n, bad |-> 0, op |-> op] : n \in RunLengths, op \in {17, 1206} }
    \cup { [n |-> 2, bad |-> 1, op |-> 18], [n |-> 49, bad |-> 48, op |-> 18],
           [n |-> 49, bad |-> 49, op |-> 18], [n |-> 50, bad |-> 50, op |-> 18] }
Dicts == { <<r>> : r \in DictRuns } \cup { <<r, q>> : r, q \in DictRuns }

\* What follows the lead byte of a number.
NumberTails ==
    { <<>>, <<5>>, <<255, 255>>, <<128, 0>>, <<1, 2, 3, 4>>,
      <<128, 0, 0, 0, 9>>, <<31>>, <<18, 63>>, <<161, 255>>, <<255>>,
      <<29, 255>>, <<18>>, <<223>> }

\* call is [fn |-> "dict", runs, dp: the parser, returned: what the calls of
\* parse_next returned so far], with ret the last call and its value, or
\* [fn |-> "parse_number" or "skip_number", b0, data] with the Stream at
\* offset 0 of data and ret the value returned.
DictInit ==
    /\ NoRender
    /\ \/ \E runs \in Dicts :
             call = [fn |-> "dict", runs |-> runs,
                     dp |-> DictionaryParser_new(DictBytes(runs)),
                     returned |-> <<>>]
       \/ \E f \in {"parse_number", "skip_number"}, b0 \in 0..255,
             t \in NumberTails :
             call = [fn |-> f, b0 |-> b0, data |-> t]
    /\ ret = None

\* The last parse_next returned an operator.
AtOperator ==
    /\ call.fn = "dict"
    /\ call.returned # <<>>
    /\ call.returned[Len(call.returned)] # None

DictParseNextCall ==
    /\ call.fn = "dict"
    /\ call.returned = <<>> \/ AtOperator
    /\ call' = [call EXCEPT
                   !.dp = DictionaryParser_parse_next(call.dp).dp,
                   !.returned =
                       Append(@, DictionaryParser_parse_next(call.dp).operator)]
    /\ ret' = Some([fn |-> "parse_next",
                    val |-> DictionaryParser_parse_next(call.dp).operator])
    /\ UNCHANGED render_vars

DictParseOperandsCall ==
    /\ AtOperator
    /\ call' = [call EXCEPT
                   !.dp.operands =
                       OperandsBuffer(call.dp.data, call.dp.operands_offset,
                                      <<>>)]
    /\ ret' = Some([fn |-> "parse_operands",
                    val |-> DictionaryParser_parse_operands(call.dp)])
    /\ UNCHANGED render_vars

NumberParseCall ==
    /\ call.fn = "parse_number" /\ ret = None
    /\ ret' = Some(parse_number(call.b0, call.data, 0))
    /\ UNCHANGED <<call, render_vars>>

NumberSkipCall ==
    /\ call.fn = "skip_number" /\ ret = None
    /\ ret' = Some(skip_number(call.b0, call.data, 0))
    /\ UNCHANGED <<call, render_vars>>

DictNext ==
    \/ DictParseNextCall \/ DictParseOperandsCall
    \/ NumberParseCall \/ NumberSkipCall

DictSpec == DictInit /\ [][DictNext]_vars

\* The run whose operator parse_next returned last.
CurrentRun == call.runs[Len(call.returned)]

\* parse_operands has just returned for the current run.
OperandsReturned == AtOperator /\ ret[1].fn = "parse_operands"

\* C34: more than 48 operands before an operator are an error when, and
\* only when, the operands are materialized: parse_operands fails on such
\* a run and on no well-formed shorter one, and parse_next returns the
\* operator of the run all the same.
C34_ExcessFails ==
    /\ OperandsReturned /\ CurrentRun.bad = 0 =>
          (ret[1].val.ok = (CurrentRun.n <= MAX_OPERANDS_LEN))
    /\ AtOperator /\ ret[1].fn = "parse_next" =>
          ret[1].val = Some(CurrentRun.op)


\* The numbers parse_operands decodes of a run: from the first of the run
\* to the 48th, to the last, or to the one before a malformed number,
\* whichever comes first.
DecodedOf(r) ==
    [i \in 1..(IF r.bad \in 1..MAX_OPERANDS_LEN THEN r.bad - 1
               ELSE IF r.n > MAX_OPERANDS_LEN THEN MAX_OPERANDS_LEN
               ELSE r.n) |-> Integer(i)]

\* C35: parse_operands restarts from the start of the operand run of the
\* operator that parse_next returned last and decodes at most 48 numbers:
\* the buffer never holds more than 48 operands, a number after the 48th is
\* not decoded (a malformed one there is no error), and the scanning
\* position is left alone, so that parse_next returns the operators of the
\* DICT in order, then None, whether or not parse_operands is called in
\* between.
C35_OperandsRestart ==
    /\ [](call.fn = "dict" => Len(call.dp.operands) <= MAX_OPERANDS_LEN)
    /\ [](OperandsReturned =>
             /\ call.dp.operands = DecodedOf(CurrentRun)
             /\ ret[1].val.ok = (CurrentRun.bad \notin 1..MAX_OPERANDS_LEN)
             /\ ret[1].val.ok => ret[1].val.val = DecodedOf(CurrentRun))
    /\ [](call.fn = "dict" /\ ret # None /\ ret[1].fn = "parse_next" =>
             ret[1].val = IF Len(call.returned) <= Len(call.runs)
                          THEN Some(CurrentRun.op) ELSE None)
    /\ [][DictParseOperandsCall =>
             /\ call'.dp.offset = call.dp.offset
             /\ call'.dp.operands_offset = call.dp.operands_offset
             /\ call'.returned = call.returned]_vars

\* parse_operands after the second operator of a DICT whose second run has
\* 50 operands, the last of them malformed: 48 operands, no error.
C35_Witness ==
    /\ OperandsReturned
    /\ Len(call.returned) = 2
    /\ call.runs[1].n = 2
    /\ CurrentRun = [n |-> 50, bad |-> 50, op |-> 18]
    /\ ret[1].val.ok
    /\ Len(call.dp.operands) = MAX_OPERANDS_LEN

\* Every lead byte that is no operator and that parse_number rejects.
InvalidLeads == 22..27 \cup {31, 255}

\* C37: skip_number mirrors parse_number: where parse_number decodes a
\* number, skip_number succeeds and leaves the Stream at the same offset;
\* parse_number rejects the lead bytes 22..27, 31 and 255 with
\* InvalidOperand, and for them skip_number returns None.
C37_SkipMirrorsParse ==
    /\ call.fn = "skip_number" /\ ret # None =>
          /\ parse_number(call.b0, call.data, 0).ok =>
                ret[1] = Some(parse_number(call.b0, call.data, 0).off)
          /\ call.b0 \in InvalidLeads => ret[1] = None
    /\ call.fn = "parse_number" /\ ret # None /\ call.b0 > 21 =>
          (ret[1].err = "InvalidOperand") = (call.b0 \in InvalidLeads)

\* skip_number has passed the five-byte form 29 that parse_number decodes.
C37_Witness ==
    /\ call.fn = "skip_number" /\ call.b0 = 29
    /\ call.data = <<128, 0, 0, 0, 9>>
    /\ ret = Some(Some(4))

\* skip_number has passed a real number of two bytes that parse_number
\* decodes (1, 2, 3 and the end flag).
C37_WitnessFloat ==
    /\ call.fn = "skip_number" /\ call.b0 = 30
    /\ call.data = <<18, 63>> /\ parse_number(30, call.data, 0).ok
    /\ ret = Some(Some(2))


\* parse_number has decoded the three-byte form 28 b1 b2.
ShortDecoded ==
    /\ call.fn = "parse_number" /\ call.b0 = 28
    /\ ret # None /\ ret[1].ok

\* C36: parse_number on the lead byte 28 returns the signed 16-bit value of
\* the two bytes that follow, the value the CharString operand 28 pushes:
\* 28 FF FF is -1 in both.
C36_ShortIntSigned ==
    ShortDecoded =>
        ret[1].val = Integer(I16Of(call.data[1], call.data[2]))

\* What holds: the value is the unsigned one, which is the CharString's
\* value only when the first byte is below 128.
C36_ShortIntUnsigned ==
    ShortDecoded =>
        /\ ret[1].val = Integer(call.data[1] * 256 + call.data[2])
        /\ ret[1].off = 2
        /\ (ret[1].val = Integer(I16Of(call.data[1], call.data[2])))
              = (call.data[1] < 128)


\* The bytes of the Private DICT that the Top DICT gave, at the step that
\* deals with the Local Subrs.
PrivateDictBytes ==
    SubSeq(call.data, call.private_dict_range[1].start + 1,
           call.private_dict_range[1].end)

\* The Private DICT is one one-byte operand and the operator 19.
OneOperand19 ==
    /\ IsSome(call.private_dict_range)
    /\ Len(PrivateDictBytes) = 2
    /\ PrivateDictBytes[1] \in 32..246 /\ PrivateDictBytes[2] = 19

\* There is no Private DICT, or no byte 19 in it.
NoOperator19 ==
    IsSome(call.private_dict_range) =>
        \A i \in 1..Len(PrivateDictBytes) : PrivateDictBytes[i] # 19

\* The step parses an INDEX at the table offset o into local_subrs, and
\* fails when that fails.
LocalSubrsParsedAt(o) ==
    IF o > Len(call.data) THEN ret' = Some(Err("ReadOutOfBounds"))
    ELSE IF parse_index(call.data, o).ok
    THEN /\ ret' = None /\ call'.stage = "char_strings"
         /\ call'.metadata.local_subrs = parse_index(call.data, o).val
    ELSE ret' = Some(Err(parse_index(call.data, o).err))

\* The step leaves local_subrs empty and goes on.
LocalSubrsLeftEmpty ==
    /\ ret' = None /\ call'.stage = "char_strings"
    /\ call'.metadata.local_subrs = DataIndex_default

\* C38: with a Private DICT that holds operator 19 with exactly one operand
\* k, the Local Subrs INDEX is parsed at the table offset
\* private_dict_start + k; with no Private DICT, or none with operator 19,
\* local_subrs is the empty INDEX and parse_metadata goes on.
C38_LocalSubrsPlace ==
    [][ParseLocalSubrs =>
          /\ OneOperand19 =>
                LocalSubrsParsedAt(call.private_dict_range[1].start
                                       + PrivateDictBytes[1] - 139)
          /\ NoOperator19 => LocalSubrsLeftEmpty]_vars

\* What holds: the same for an operand k that is not negative; with a
\* negative k and a Private DICT that starts at |k| or later, no INDEX is
\* parsed and local_subrs is left empty.
C38_LocalSubrsForward ==
    [][ParseLocalSubrs =>
          /\ OneOperand19 /\ PrivateDictBytes[1] >= 139 =>
                LocalSubrsParsedAt(call.private_dict_range[1].start
                                       + PrivateDictBytes[1] - 139)
          /\ OneOperand19 /\ PrivateDictBytes[1] < 139
               /\ call.private_dict_range[1].start >= 139 - PrivateDictBytes[1]
               => LocalSubrsLeftEmpty
          /\ NoOperator19 => LocalSubrsLeftEmpty]_vars

\* The Local Subrs INDEX of the well-formed table, parsed at 28 + 2.
C38_Witness ==
    /\ call.fn = "parse_metadata" /\ call.stage = "char_strings"
    /\ call.data = BaseTable
    /\ call.metadata.local_subrs = MkIndex(<< <<11>> >>)


(***************************************************************************)
(* The slots of the ArgumentsStack that an operator reads, for every stack *)
(* length.  at(index) reads data[index] of the 48-slot array with no test  *)
(* against len, and pop reads data[len - 1] after `len -= 1`.              *)
(***************************************************************************)
\* The values i takes in `let mut i = from; while i < below { ..; i += k }`,
\* and the value it has after the loop.
Steps(from, below, k) == { i \in from..(below - 1) : (i - from) % k = 0 }
LoopEnd(from, below, k) ==
    IF below <= from THEN from
    ELSE from + k * ((below - from + k - 1) \div k)

\* The operators that read operands; the two-byte 12 n is written 1200 + n.
ReadingOperators ==
    {4, 5, 6, 7, 8, 10, 21, 22, 24, 25, 26, 27, 29, 30, 31,
     1234, 1235, 1236, 1237}

\* Mutant of StackDiffs: rcurveline and rlinecurve subtract before the
\* length is tested.
StackDiffs_untested(op, n) ==
    IF op = 24 THEN {n - 2}
    ELSE IF op = 25 THEN {n - 6}
    ELSE IF op \in {26, 27} THEN {n - (IF is_odd(n) THEN 1 ELSE 0)}
    ELSE {}

\* The differences of stack lengths that op computes as usize on a stack of
\* n operands: len - 2 (rcurveline), len - 6 (rlinecurve) and len - i
\* (vvcurveto, hhcurveto).
StackDiffs(op, n) ==
    IF op = 24 THEN IF n < 8 THEN {} ELSE {n - 2}
    ELSE IF op = 25 THEN IF n < 8 THEN {} ELSE {n - 6}
    ELSE IF op \in {26, 27} THEN {n - (IF is_odd(n) THEN 1 ELSE 0)}
    ELSE {}

\* The indexes that op passes to stack.at on a stack of n operands, with
\* width_parsed = wp; none when a test of the length returns an error first.
StackAt(op, n, wp) ==
    IF op \in {4, 22}
    THEN IF n = 2 /\ ~wp THEN {1} ELSE IF n # 1 THEN {} ELSE {0}
    ELSE IF op = 21
    THEN IF n = 3 /\ ~wp THEN {1, 2} ELSE IF n # 2 THEN {} ELSE {0, 1}
    ELSE IF op = 5
    THEN IF is_odd(n) THEN {}
         ELSE { i + j : i \in Steps(0, n, 2), j \in 0..1 }
    ELSE IF op \in {6, 7}
    THEN Steps(0, n, 2) \cup { i + 1 : i \in { k \in Steps(0, n, 2) : k + 1 # n } }
    ELSE IF op = 8
    THEN IF n % 6 # 0 THEN {}
         ELSE { i + j : i \in Steps(0, n, 6), j \in 0..5 }
    ELSE IF op = 24
    THEN IF n < 8 \/ (n - 2) % 6 # 0 THEN {}
         ELSE { i + j : i \in Steps(0, n - 2, 6), j \in 0..5 }
              \cup { LoopEnd(0, n - 2, 6) + j : j \in 0..1 }
    ELSE IF op = 25
    THEN IF n < 8 \/ is_odd(n - 6) THEN {}
         ELSE { i + j : i \in Steps(0, n - 6, 2), j \in 0..1 }
              \cup { LoopEnd(0, n - 6, 2) + j : j \in 0..5 }
    ELSE IF op \in {26, 27}
    THEN (IF is_odd(n) THEN {0} ELSE {})
         \cup (IF (n - (IF is_odd(n) THEN 1 ELSE 0)) % 4 # 0 THEN {}
               ELSE { i + j : i \in Steps(IF is_odd(n) THEN 1 ELSE 0, n, 4),
                              j \in 0..3 })
    ELSE IF op = 1234 THEN IF n # 7 THEN {} ELSE 0..6
    ELSE IF op = 1235 THEN IF n # 13 THEN {} ELSE 0..11
    ELSE IF op = 1236 THEN IF n # 9 THEN {} ELSE 0..8
    ELSE IF op = 1237 THEN IF n # 11 THEN {} ELSE 0..10
    ELSE {}

\* The stack lengths at which op executes a pop, on a stack of n operands:
\* one pop of callsubr and callgsubr on a stack that is not empty; in
\* vhcurveto and hvcurveto the four pops of every block that starts with at
\* least four operands, and a fifth when one operand is left after them.
StackPops(op, n) ==
    IF op \in {10, 29} THEN IF n = 0 THEN {} ELSE {n}
    ELSE IF op \in {30, 31}
    THEN IF n < 4 THEN {}
         ELSE UNION { (m - 3)..m \cup (IF m - 4 = 1 THEN {1} ELSE {}) :
                      m \in { k \in 4..n : (n - k) % 4 = 0 } }
    ELSE {}

\* call is [fn |-> "operator", op, len, width_parsed]; ret is what the
\* operator reads: [at, pops, diffs].
StackInit ==
    /\ NoRender
    /\ \E op \in ReadingOperators, n \in 0..MAX_ARGUMENTS_STACK_LEN,
          wp \in BOOLEAN :
          call = [fn |-> "operator", op |-> op, len |-> n,
                  width_parsed |-> wp]
    /\ ret = None

OperatorReads ==
    /\ call.fn = "operator" /\ ret = None
    /\ ret' = Some([at    |-> StackAt(call.op, call.len, call.width_parsed),
                    pops  |-> StackPops(call.op, call.len),
                    diffs |-> StackDiffs(call.op, call.len)])
    /\ UNCHANGED <<call, render_vars>>

StackNext == OperatorReads

StackSpec == StackInit /\ [][StackNext]_vars

\* C39: every operand an operator reads is below the stack top: each index
\* given to stack.at is below stack.len(), each pop is executed on a stack
\* that is not empty, and no difference of stack lengths (len - 2, len - 6,
\* len - i) is negative, for every operator, stack length and state of
\* the width.
C39_ReadsBelowTop ==
    call.fn = "operator" /\ ret # None =>
        /\ \A i \in ret[1].at : i >= 0 /\ i < call.len
        /\ \A p \in ret[1].pops : p >= 1 /\ p <= call.len
        /\ \A d \in ret[1].diffs : d >= 0

\* rcurveline on 14 operands: two curves read the slots 0..11 and the line
\* the slots 12 and 13, with len - 2 = 12.
C39_Witness ==
    /\ call.fn = "operator" /\ call.op = 24 /\ call.len = 14
    /\ ret = Some([at |-> 0..13, pops |-> {}, diffs |-> {12}])

\* vhcurveto on 9 operands: two blocks of four pops and the pop of the
\* operand left over.
C39_WitnessPops ==
    /\ call.fn = "operator" /\ call.op = 30 /\ call.len = 9
    /\ ret = Some([at |-> {}, pops |-> 1..9, diffs |-> {}])

=============================================================================
